---------------------------- MODULE Spec2Model ----------------------------
(***************************************************************************)
(* A model of the voxel-wise statistics pipeline of                        *)
(* src/registration_based_image_processing/voxel_t-stats.py and of the     *)
(* hemilineage tools of src/FAFB_HAT (process_batch_v2.py,                 *)
(* process_single_v2.py, reset_status_v2.py, HAT_FAFB.py, HAT_union.py,    *)
(* HAT_mapping.py).                                                        *)
(*                                                                         *)
(* float64 arithmetic is modelled by exact rational arithmetic (a pair     *)
(* <<numerator, denominator>> in lowest terms); the IEEE special values    *)
(* NaN and +/-Inf are modelled explicitly where the code can produce them. *)
(***************************************************************************)
EXTENDS Integers, Sequences, FiniteSets, TLC

(***************************************************************************)
(* Bounds of the model.                                                    *)
(***************************************************************************)
\* longest path list handed to one call of calculate_online_stats_3d
MaxPaths == 3
\* voxel values stored in the input files of the accumulator: 0..MaxVal
MaxVal == 1

(***************************************************************************)
(* Rational numbers: the model of float64 values.                          *)
(***************************************************************************)
Abs(x) == IF x < 0 THEN -x ELSE x

RECURSIVE Gcd(_, _)
Gcd(a, b) == IF b = 0 THEN a ELSE Gcd(b, a % b)

\* the rational a/b (b # 0) in lowest terms with a positive denominator
Rat(a, b) ==
    LET g == Gcd(Abs(a), Abs(b))
        s == IF b < 0 THEN -1 ELSE 1
    IN  <<(s * a) \div g, (s * b) \div g>>

RZero == <<0, 1>>
ROne == <<1, 1>>
RInt(i) == <<i, 1>>
RAdd(x, y) == Rat(x[1] * y[2] + y[1] * x[2], x[2] * y[2])
RSub(x, y) == Rat(x[1] * y[2] - y[1] * x[2], x[2] * y[2])
RMul(x, y) == Rat(x[1] * y[1], x[2] * y[2])
\* x / y for y # 0
RDiv(x, y) == Rat(x[1] * y[2], x[2] * y[1])
RNeg(x) == <<-x[1], x[2]>>
RLe(x, y) == x[1] * y[2] <= y[1] * x[2]
RLt(x, y) == x[1] * y[2] < y[1] * x[2]
RSign(x) == IF x[1] > 0 THEN 1 ELSE IF x[1] < 0 THEN -1 ELSE 0
RAbs(x) == <<Abs(x[1]), x[2]>>
RMin(x, y) == IF RLe(x, y) THEN x ELSE y

(***************************************************************************)
(* numpy arrays: a shape (three axes) and one value per index; numpy's     *)
(* broadcasting rule for elementwise operations.                           *)
(***************************************************************************)
Idx(shape) == (0 .. shape[1] - 1) \X (0 .. shape[2] - 1) \X (0 .. shape[3] - 1)

\* an array holds values, not expressions: the function f with every value
\* computed once
Stored(f) == f @@ f

\* np.zeros(shape, dtype=np.float64)
Zeros(shape) == [shape |-> shape, data |-> Stored([i \in Idx(shape) |-> RZero])]

\* the value None
NoneArr == [shape |-> <<0, 0, 0>>, data |-> [i \in Idx(<<0, 0, 0>>) |-> RZero]]

\* two shapes can be broadcast together: on every axis equal, or one of them 1
Broadcastable(s, t) ==
    \A a \in 1 .. 3 : s[a] = t[a] \/ s[a] = 1 \/ t[a] = 1

BroadcastShape(s, t) ==
    <<IF s[1] = 1 THEN t[1] ELSE s[1],
      IF s[2] = 1 THEN t[2] ELSE s[2],
      IF s[3] = 1 THEN t[3] ELSE s[3]>>

\* the element of arr that index i of the broadcast result reads
At(arr, i) ==
    arr.data[<<IF arr.shape[1] = 1 THEN 0 ELSE i[1],
               IF arr.shape[2] = 1 THEN 0 ELSE i[2],
               IF arr.shape[3] = 1 THEN 0 ELSE i[3]>>]

\* x - y, x * y elementwise with broadcasting (the shapes are broadcastable)
ArrSub(x, y) ==
    LET s == BroadcastShape(x.shape, y.shape)
    IN  [shape |-> s, data |-> Stored([i \in Idx(s) |-> RSub(At(x, i), At(y, i))])]

ArrMul(x, y) ==
    LET s == BroadcastShape(x.shape, y.shape)
    IN  [shape |-> s, data |-> Stored([i \in Idx(s) |-> RMul(At(x, i), At(y, i))])]

\* x / c for a scalar c
ArrDivScalar(x, c) ==
    [shape |-> x.shape, data |-> Stored([i \in Idx(x.shape) |-> RDiv(x.data[i], RInt(c))])]

\* acc += y: in place, so the broadcast result must have the shape of acc
InPlaceOk(acc, y) ==
    /\ Broadcastable(acc.shape, y.shape)
    /\ BroadcastShape(acc.shape, y.shape) = acc.shape

ArrAddInPlace(acc, y) ==
    [shape |-> acc.shape,
     data |-> Stored([i \in Idx(acc.shape) |-> RAdd(acc.data[i], At(y, i))])]

\* np.load(path).astype(np.float64) / nrrd.read(path)[0].astype(np.float64)
AsFloat64(file) ==
    [shape |-> file.shape, data |-> Stored([i \in Idx(file.shape) |-> RInt(file.data[i])])]

(***************************************************************************)
(* calculate_online_stats_3d: Welford's update for one array.              *)
(***************************************************************************)
\* line 57 dividing by the count after the next array
MeanUpdateOffByOne(mean_, delta_, n_) == ArrAddInPlace(mean_, ArrDivScalar(delta_, n_ + 1))

\* line 57: mean_arr += delta / n
MeanUpdate(mean_, delta_, n_) == ArrAddInPlace(mean_, ArrDivScalar(delta_, n_))

\* line 59 with the first difference used twice
SUpdateStaleDelta(S_, delta_, delta2_) == ArrAddInPlace(S_, ArrMul(delta_, delta_))

\* line 59: S_arr += delta * delta2
SUpdate(S_, delta_, delta2_) == ArrAddInPlace(S_, ArrMul(delta_, delta2_))

\* the result of one pass of the loop body on the state st = [n, mean_arr, S_arr]
\* with the array just read; raised is TRUE when numpy raises ValueError
WelfordUpdate(st, current_array) ==
    LET n1 == st.n + 1
    IN  IF ~Broadcastable(current_array.shape, st.mean_arr.shape)
        THEN \* line 56: operands could not be broadcast together
             [raised |-> TRUE, n |-> n1, mean_arr |-> st.mean_arr, S_arr |-> st.S_arr]
        ELSE LET d1 == ArrSub(current_array, st.mean_arr)
             IN  IF ~InPlaceOk(st.mean_arr, d1)
                 THEN \* line 57: non-broadcastable output operand
                      [raised |-> TRUE, n |-> n1,
                       mean_arr |-> st.mean_arr, S_arr |-> st.S_arr]
                 ELSE LET mean1 == MeanUpdate(st.mean_arr, d1, n1)
                          d2 == ArrSub(current_array, mean1)
                      IN  [raised |-> FALSE, n |-> n1, mean_arr |-> mean1,
                           S_arr |-> SUpdate(st.S_arr, d1, d2)]

\* lines 61-65: the variance from S and the count
Variance(S_arr, n) ==
    IF n < 2 THEN Zeros(S_arr.shape)
    ELSE [shape |-> S_arr.shape,
          data |-> Stored([i \in Idx(S_arr.shape) |-> RDiv(S_arr.data[i], RInt(n - 1))])]


(***************************************************************************)
(* calculate_online_stats_3d as a function of the path list, for its       *)
(* callers: the same loop, every read succeeding.                          *)
(***************************************************************************)
RECURSIVE StatsLoop(_, _, _)
\* lines 47-59: the loop from the j-th path on
StatsLoop(paths, j, st) ==
    IF j > Len(paths) \/ st.raised THEN st
    ELSE StatsLoop(paths, j + 1, WelfordUpdate(st, AsFloat64(paths[j])))

calculate_online_stats_3d(paths) ==
    IF paths = <<>>
    THEN [raised |-> FALSE, mean |-> NoneArr, variance |-> NoneArr, count |-> 0]
    ELSE LET st == StatsLoop(paths, 1,
                     [raised |-> FALSE, n |-> 0,
                      mean_arr |-> Zeros(paths[1].shape),
                      S_arr |-> Zeros(paths[1].shape)])
         IN  [raised |-> st.raised, mean |-> st.mean_arr,
              variance |-> Variance(st.S_arr, st.n), count |-> st.n]

(***************************************************************************)
(* scipy.stats.ttest_ind_from_stats(..., equal_var=False) at one voxel.    *)
(* A t-statistic is NaN, +/-Inf, or finite; a finite one is kept as its    *)
(* sign and its square, which is rational.                                 *)
(***************************************************************************)
TNaN == [kind |-> "nan", sgn |-> 0, sq |-> RZero]
TInf(sgn) == [kind |-> "inf", sgn |-> sgn, sq |-> RZero]
TFin(sgn, sq) == [kind |-> "fin", sgn |-> sgn, sq |-> sq]
TZero == TFin(0, RZero)
PNaN == [kind |-> "nan", val |-> RZero]
PFin(val) == [kind |-> "fin", val |-> val]

\* 2 * t.sf(|t|, df) for the finite non-zero t and the df that binary
\* volumes with two to four arrays per group produce: <<t^2, df, p * 10^4>>
\* (p rounded to four decimals)
StudentTable ==
    { <<<<1, 25>>, <<125, 31>>, 8512>>,
      <<<<1, 13>>, <<169, 89>>, 8088>>,
      <<<<1, 7>>, <<49, 11>>, 7228>>,
      <<<<1, 5>>, <<75, 49>>, 7098>>,
      <<<<3, 7>>, <<147, 25>>, 5374>>,
      <<<<1, 2>>, <<4, 1>>, 5185>>,
      <<<<1, 1>>, <<1, 1>>, 5000>>,
      <<<<1, 1>>, <<2, 1>>, 4226>>,
      <<<<1, 1>>, <<3, 1>>, 3910>>,
      <<<<1, 1>>, <<125, 31>>, 3735>>,
      <<<<2, 1>>, <<6, 1>>, 2070>>,
      <<<<3, 1>>, <<3, 1>>, 1817>>,
      <<<<4, 1>>, <<2, 1>>, 1835>>,
      <<<<9, 1>>, <<3, 1>>, 577>> }

StudentTwoSided(sq, df) ==
    LET e == CHOOSE x \in StudentTable : x[1] = sq /\ x[2] = df
    IN  Rat(e[3], 10000)

\* the t-statistic and the degrees of freedom from the two groups' statistics
WelchTAbsDiff(mean1, var1, n1, mean2, var2, n2) ==
    LET vn1 == RDiv(var1, RInt(n1))
        vn2 == RDiv(var2, RInt(n2))
        sum == RAdd(vn1, vn2)
        d == RAbs(RSub(mean1, mean2))
    IN  IF sum = RZero
        THEN IF d = RZero THEN TNaN ELSE TInf(RSign(d))
        ELSE TFin(RSign(d), RDiv(RMul(d, d), sum))

WelchT(mean1, var1, n1, mean2, var2, n2) ==
    LET vn1 == RDiv(var1, RInt(n1))
        vn2 == RDiv(var2, RInt(n2))
        sum == RAdd(vn1, vn2)
        d == RSub(mean1, mean2)
    IN  IF sum = RZero
        THEN \* denom = 0: 0/0 is NaN, d/0 is +/-Inf
             IF d = RZero THEN TNaN ELSE TInf(RSign(d))
        ELSE TFin(RSign(d), RDiv(RMul(d, d), sum))

WelchDf(var1, n1, var2, n2) ==
    LET vn1 == RDiv(var1, RInt(n1))
        vn2 == RDiv(var2, RInt(n2))
        sum == RAdd(vn1, vn2)
        den == IF n1 < 2 \/ n2 < 2 THEN RZero
               ELSE RAdd(RDiv(RMul(vn1, vn1), RInt(n1 - 1)),
                         RDiv(RMul(vn2, vn2), RInt(n2 - 1)))
    IN  \* 0/0 is NaN, which scipy replaces by 1; x/0 is Inf, and sum^2/Inf is 0
        IF (n1 = 1 /\ vn1 = RZero) \/ (n2 = 1 /\ vn2 = RZero) THEN ROne
        ELSE IF n1 = 1 \/ n2 = 1 THEN RZero
        ELSE IF den = RZero THEN ROne
        ELSE RDiv(RMul(sum, sum), den)

\* WelchP giving the p-value 0 for a NaN statistic
WelchPNaNIsZero(t, df) ==
    CASE t.kind = "nan" -> PFin(RZero)
      [] t.kind = "inf" -> PFin(RZero)
      [] t.kind = "fin" /\ t.sgn = 0 -> PFin(ROne)
      [] OTHER -> PFin(StudentTwoSided(t.sq, df))

\* the two-sided p-value of t with df degrees of freedom
WelchP(t, df) ==
    CASE t.kind = "nan" -> PNaN
      [] t.kind = "inf" -> PFin(RZero)
      [] t.kind = "fin" /\ t.sgn = 0 -> PFin(ROne)
      [] OTHER -> PFin(StudentTwoSided(t.sq, df))

(***************************************************************************)
(* statsmodels.stats.multitest.fdrcorrection(pvals, alpha) on a flat       *)
(* sequence of p-values; perm is the result of np.argsort.                 *)
(***************************************************************************)
PermsOf(m) ==
    {f \in [1 .. m -> 1 .. m] : \A a, b \in 1 .. m : a # b => f[a] # f[b]}

\* the permutations np.argsort may return: any order that sorts pvals
ArgSorts(pvals) ==
    {f \in PermsOf(Len(pvals)) :
        \A a \in 1 .. Len(pvals) - 1 : RLe(pvals[f[a]], pvals[f[a + 1]])}

\* the position of voxel q in the sorted order
RankOf(perm, q) == CHOOSE a \in DOMAIN perm : perm[a] = q

RECURSIVE MinFrom(_, _)
\* np.minimum.accumulate from the end: the minimum of raw[a..]
MinFrom(raw, a) ==
    IF a = Len(raw) THEN raw[a] ELSE RMin(raw[a], MinFrom(raw, a + 1))

fdrcorrectionNoStepUp(pvals, alpha_, perm) ==
    LET m == Len(pvals)
        sorted == Stored([a \in 1 .. m |-> pvals[perm[a]]])
        reject == Stored([a \in 1 .. m |-> RLe(sorted[a], RMul(Rat(a, m), alpha_))])
        raw == Stored([a \in 1 .. m |-> RDiv(sorted[a], Rat(a, m))])
        corrected == Stored([a \in 1 .. m |->
                        LET c == MinFrom(raw, a) IN IF RLt(ROne, c) THEN ROne ELSE c])
    IN  [rejected |-> Stored([q \in 1 .. m |-> reject[RankOf(perm, q)]]),
         pvals_corrected |-> Stored([q \in 1 .. m |-> corrected[RankOf(perm, q)]])]

\* fdrcorrection without np.minimum.accumulate: each corrected p-value is its
\* own p * m / rank, capped at 1
fdrcorrectionNoAccumulate(pvals, alpha_, perm) ==
    LET m == Len(pvals)
        sorted == Stored([a \in 1 .. m |-> pvals[perm[a]]])
        reject0 == Stored([a \in 1 .. m |-> RLe(sorted[a], RMul(Rat(a, m), alpha_))])
        hits == {a \in 1 .. m : reject0[a]}
        rejectmax == IF hits = {} THEN 0 ELSE CHOOSE a \in hits : \A b \in hits : b <= a
        reject == Stored([a \in 1 .. m |-> reject0[a] \/ a < rejectmax])
        raw == Stored([a \in 1 .. m |-> RDiv(sorted[a], Rat(a, m))])
        corrected == Stored([a \in 1 .. m |-> IF RLt(ROne, raw[a]) THEN ROne ELSE raw[a]])
    IN  [rejected |-> Stored([q \in 1 .. m |-> reject[RankOf(perm, q)]]),
         pvals_corrected |-> Stored([q \in 1 .. m |-> corrected[RankOf(perm, q)]])]

fdrcorrection(pvals, alpha_, perm) ==
    LET m == Len(pvals)
        sorted == Stored([a \in 1 .. m |-> pvals[perm[a]]])
        \* ecdffactor = a / m
        reject0 == Stored([a \in 1 .. m |-> RLe(sorted[a], RMul(Rat(a, m), alpha_))])
        hits == {a \in 1 .. m : reject0[a]}
        rejectmax == IF hits = {} THEN 0 ELSE CHOOSE a \in hits : \A b \in hits : b <= a
        reject == Stored([a \in 1 .. m |-> reject0[a] \/ a < rejectmax])
        raw == Stored([a \in 1 .. m |-> RDiv(sorted[a], Rat(a, m))])
        corrected == Stored([a \in 1 .. m |->
                        LET c == MinFrom(raw, a) IN IF RLt(ROne, c) THEN ROne ELSE c])
    IN  [rejected |-> Stored([q \in 1 .. m |-> reject[RankOf(perm, q)]]),
         pvals_corrected |-> Stored([q \in 1 .. m |-> corrected[RankOf(perm, q)]])]

(***************************************************************************)
(* ndarray.flatten and ndarray.reshape: row-major order.                   *)
(***************************************************************************)
Size(shape) == shape[1] * shape[2] * shape[3]

\* the position (from 1) of index i in the flattened array
Ravel(i, shape) == (i[1] * shape[2] + i[2]) * shape[3] + i[3] + 1

Flatten(arr) ==
    Stored([q \in 1 .. Size(arr.shape) |->
        arr.data[CHOOSE i \in Idx(arr.shape) : Ravel(i, arr.shape) = q]])

\* reshape in column-major (Fortran) order
ReshapeColumnMajor(flat, shape) ==
    [shape |-> shape,
     data |-> Stored([i \in Idx(shape) |->
                 flat[(i[3] * shape[2] + i[2]) * shape[1] + i[1] + 1]])]

\* ndarray.reshape(shape) of a flat array
Reshape(flat, shape) ==
    [shape |-> shape, data |-> Stored([i \in Idx(shape) |-> flat[Ravel(i, shape)]])]

(***************************************************************************)
(* compare_groups_voxelwise.                                               *)
(***************************************************************************)
NoResults ==
    [t_statistics |-> NoneArr, p_values_uncorrected |-> NoneArr,
     p_values_corrected_fdr |-> NoneArr, significant_mask_fdr |-> NoneArr,
     mean_diff |-> NoneArr]

NoTTest == [t_stats |-> NoneArr, p_values |-> NoneArr, mean_diff |-> NoneArr]
NotCalled == [status |-> "none", error |-> "none", results |-> NoResults]
Raised(error) == [status |-> "raised", error |-> error, results |-> NoResults]

\* lines 91-103 and 125: the t-test on the two groups' statistics, the NaN
\* replacement, and the mean difference
TTestStage(A, B) ==
    LET shape == BroadcastShape(A.mean.shape, B.mean.shape)
        t_raw == Stored([i \in Idx(shape) |->
                    WelchT(At(A.mean, i), At(A.variance, i), A.count,
                           At(B.mean, i), At(B.variance, i), B.count)])
        p_raw == Stored([i \in Idx(shape) |->
                    WelchP(t_raw[i],
                           WelchDf(At(A.variance, i), A.count,
                                   At(B.variance, i), B.count))])
    IN  [t_stats |-> [shape |-> shape,
                      data |-> Stored([i \in Idx(shape) |->
                                  IF t_raw[i].kind = "nan" THEN TZero ELSE t_raw[i]])],
         p_values |-> [shape |-> shape,
                       data |-> Stored([i \in Idx(shape) |->
                                   IF p_raw[i].kind = "nan" THEN ROne ELSE p_raw[i].val])],
         mean_diff |-> ArrSub(B.mean, A.mean)]

\* lines 105-126: the FDR correction of the flattened p-values and the result
FdrStage(tt, alpha_, perm) ==
    LET original_shape == tt.p_values.shape
        fdr == fdrcorrection(Flatten(tt.p_values), alpha_, perm)
    IN  [t_statistics |-> tt.t_stats,
         p_values_uncorrected |-> tt.p_values,
         p_values_corrected_fdr |-> Reshape(fdr.pvals_corrected, original_shape),
         significant_mask_fdr |-> Reshape(fdr.rejected, original_shape),
         mean_diff |-> tt.mean_diff]

\* every outcome of compare_groups_voxelwise(group_a, group_b, alpha) when
\* every file can be read: an exception, or the result for one of the orders
\* np.argsort may return
\* the count check of lines 88-89 with "and" for "or"
compare_groups_voxelwiseBothSmall(group_a, group_b, alpha_) ==
    LET A == calculate_online_stats_3d(group_a)
        B == calculate_online_stats_3d(group_b)
    IN  IF A.raised \/ B.raised
        THEN {Raised("ValueError: broadcast")}
        ELSE IF A.count < 2 /\ B.count < 2
        THEN {Raised("ValueError: at least two arrays")}
        ELSE IF ~Broadcastable(A.mean.shape, B.mean.shape)
        THEN {Raised("ValueError: broadcast")}
        ELSE LET tt == TTestStage(A, B)
             IN  {[status |-> "returned", error |-> "none",
                   results |-> FdrStage(tt, alpha_, perm)] :
                      perm \in ArgSorts(Flatten(tt.p_values))}

compare_groups_voxelwise(group_a, group_b, alpha_) ==
    LET A == calculate_online_stats_3d(group_a)
        B == calculate_online_stats_3d(group_b)
    IN  IF A.raised \/ B.raised
        THEN {Raised("ValueError: broadcast")}
        ELSE IF A.count < 2 \/ B.count < 2
        THEN {Raised("ValueError: at least two arrays")}
        ELSE IF ~Broadcastable(A.mean.shape, B.mean.shape)
        THEN {Raised("ValueError: broadcast")}
        ELSE LET tt == TTestStage(A, B)
             IN  {[status |-> "returned", error |-> "none",
                   results |-> FdrStage(tt, alpha_, perm)] :
                      perm \in ArgSorts(Flatten(tt.p_values))}

\* the files compare_groups_voxelwise reads: a failing read propagates
ReadsAnyFile(group_a, group_b) == group_a # <<>> \/ group_b # <<>>

(***************************************************************************)
(* visualize_single_projection: the three projections along one axis.      *)
(* axis_idx is 0, 1 or 2; a pixel <<i, j>> of the image is the ray of the  *)
(* voxels that differ only in the coordinate of that axis.                 *)
(***************************************************************************)
\* the shape of the image: the shape of the volume without the axis
ImageShape(shape, axis_idx) ==
    IF axis_idx = 0 THEN <<shape[2], shape[3]>>
    ELSE IF axis_idx = 1 THEN <<shape[1], shape[3]>>
    ELSE <<shape[1], shape[2]>>

Pixels(shape, axis_idx) ==
    (0 .. ImageShape(shape, axis_idx)[1] - 1) \X (0 .. ImageShape(shape, axis_idx)[2] - 1)

\* lines 222-230: the voxel at position idx of the ray of pixel <<i, j>>
VoxelAt(axis_idx, i, j, idx) ==
    IF axis_idx = 0 THEN <<idx, i, j>>
    ELSE IF axis_idx = 1 THEN <<i, idx, j>>
    ELSE <<i, j, idx>>

\* lines 211-212: mean_diff where significant, zero elsewhere
DiffMask(significant_mask, mean_diff) ==
    [shape |-> mean_diff.shape,
     data |-> Stored([v \in Idx(mean_diff.shape) |->
                 IF significant_mask.data[v] THEN mean_diff.data[v] ELSE RZero])]

\* line 216: np.argmax(np.abs(diff_mask), axis): the first index of the maximum
ArgMaxAbs(diff_mask, axis_idx, i, j) ==
    LET len == diff_mask.shape[axis_idx + 1]
        val(idx) == RAbs(diff_mask.data[VoxelAt(axis_idx, i, j, idx)])
    IN  CHOOSE idx \in 0 .. len - 1 :
            /\ \A o \in 0 .. len - 1 : RLe(val(o), val(idx))
            /\ \A o \in 0 .. idx - 1 : RLt(val(o), val(idx))

\* lines 216-230: diff_proj
SignedProjection(significant_mask, mean_diff, axis_idx) ==
    LET diff_mask == DiffMask(significant_mask, mean_diff)
    IN  Stored([px \in Pixels(mean_diff.shape, axis_idx) |->
            LET idx == ArgMaxAbs(diff_mask, axis_idx, px[1], px[2])
            IN  IF idx > 0 THEN diff_mask.data[VoxelAt(axis_idx, px[1], px[2], idx)]
                ELSE RZero])

\* |a| <= |b| for two t-statistics (NaN has been replaced before)
TAbsLe(a, b) ==
    \/ b.kind = "inf"
    \/ a.kind = "fin" /\ b.kind = "fin" /\ RLe(a.sq, b.sq)

\* line 198: np.max(np.abs(t_stats), axis)
MaxAbsProjection(t_stats, axis_idx) ==
    Stored([px \in Pixels(t_stats.shape, axis_idx) |->
        LET ray == {t_stats.data[VoxelAt(axis_idx, px[1], px[2], idx)] :
                        idx \in 0 .. t_stats.shape[axis_idx + 1] - 1}
            top == CHOOSE t \in ray : \A u \in ray : TAbsLe(u, t)
        IN  [top EXCEPT !.sgn = Abs(top.sgn)]])

\* line 205: np.any(significant_mask, axis)
AnyProjection(significant_mask, axis_idx) ==
    Stored([px \in Pixels(significant_mask.shape, axis_idx) |->
        \E idx \in 0 .. significant_mask.shape[axis_idx + 1] - 1 :
            significant_mask.data[VoxelAt(axis_idx, px[1], px[2], idx)]])

\* the image visualize_single_projection saves for one axis
visualize_single_projection(t_stats, significant_mask, mean_diff, axis_idx) ==
    [axis_idx |-> axis_idx,
     t_proj |-> MaxAbsProjection(t_stats, axis_idx),
     sig_proj |-> AnyProjection(significant_mask, axis_idx),
     diff_proj |-> SignedProjection(significant_mask, mean_diff, axis_idx)]

(***************************************************************************)
(* State.                                                                  *)
(***************************************************************************)
VARIABLES
    \* one call of calculate_online_stats_3d
    array_paths,  \* the argument: a sequence of files [shape, data]
    pc,           \* position in the function
    n,            \* number of arrays folded
    mean_arr,     \* running mean
    S_arr,        \* running sum of squared deviations
    delta,        \* current_array - mean_arr before the update of the mean
    delta2,       \* current_array - mean_arr after it
    loading,      \* index in array_paths of the array of this pass of the loop
    resident,     \* the full-size arrays alive: <<name, pass of the loop>>
    reads,        \* indices of array_paths read so far, in order of reading
    stats,        \* the returned tuple (mean_arr, variance_arr, n)
    err,          \* the exception raised: [kind, path]
    \* one call of compare_groups_voxelwise
    group_a_paths,
    group_b_paths,
    alpha,
    tt,           \* the t-test stage handed to the FDR stage
    cmp,          \* its outcome: [status, error, results]
    \* the projections saved by visualize_single_projection, in order
    images,
    \* the command-line run
    folder1,      \* [exists, listing]: the files of the folder that end with
    folder2,      \*   the suffix, in the order os.listdir returns them
    suffix,       \* the kind of file the suffix selects: "nrrd" or "npy"
    group1_files,
    group2_files,
    header,       \* the header read from the first file of group 1
    mpc,          \* position in the main block
    written,      \* the output volumes written, in order
    exit_code,    \* the exit code of the process (-1 while it runs)
    message,      \* the last message printed
    \* the hemilineage processor (process_batch_v2.py, process_single_v2.py)
    df,                    \* self.df: hemilineage -> its two status columns
    csv,                   \* the summary CSV on disk: [intact, table]
    backups,               \* the backup files written, oldest first
    hemilineage,           \* the hemilineage to process
    process_whole_neuron,  \* the whole-neuron processing is requested
    process_cbf,           \* the CBF processing is requested
    hemi_processor,        \* the hat_fafb instance: "none", "constructed", "raised"
    calls,                 \* the calls of register_meshes: [CBF, outcome]
    hemi_results,          \* the dict process_hemilineage returns
    hpc,                   \* position in the processor
    hexit,                 \* the exit code of process_single_v2 (-1 while it runs)
    saved,                 \* what the last call of save_summary did
    \* process_batch (process_batch_v2.py)
    batches,                     \* the column 'batches' of the summary
    batch_number,                \* the batch to process
    batch_process_whole_neuron,  \* process_batch's process_whole_neuron
    batch_process_cbf,           \* process_batch's process_cbf
    skip_completed,
    batch_df,              \* the copy of the rows of the batch (line 105)
    row,                   \* the index in batch_df of the row of the loop
    batch_results,         \* the dict results of process_batch
    processed,             \* the calls of process_hemilineage made, in order
    bpc,                   \* position in process_batch
    \* reset_status_v2.py
    dry_run,               \* args.dry_run
    rpc,                   \* position in main
    rexit,                 \* the exit code (-1 while it runs)
    \* hat_fafb.register_meshes (HAT_FAFB.py)
    pkl_files,             \* the pickle files of the hemilineage folder
    templates,             \* self.templates
    request,               \* the arguments of the last call
    registered_meshes,     \* what the last call returned
    \* HAT_union.py
    HAT_files,             \* the CBF image of each hemilineage, or "missing"
    HAT_union_image,
    hemi_index,            \* the index of the hemilineage of the loop
    combined,              \* the combined image written ("none" before)
    upc,                   \* position in the script
    \* HAT_mapping.py
    TF_image_binary,
    HAT_data,              \* the HAT image of each type and hemilineage
    whole_neuron,          \* args.whole_neuron
    cbf,                   \* args.cbf
    HAT_table,             \* the result columns added to the table
    output_csv,            \* the CSV written ("none" before)
    kpc,                   \* position in main
    kexit                  \* the exit code (-1 while it runs)

statsVars ==
    <<array_paths, pc, n, mean_arr, S_arr, delta, delta2, loading, resident, reads, stats,
      err>>
cmpVars == <<group_a_paths, group_b_paths, alpha, tt, cmp>>
mainVars ==
    <<folder1, folder2, suffix, group1_files, group2_files, header, mpc, written,
      exit_code, message>>
batchVars ==
    <<batches, batch_number, batch_process_whole_neuron, batch_process_cbf, skip_completed,
      batch_df, row, batch_results, processed, bpc>>
resetVars == <<dry_run, rpc, rexit>>
registerVars == <<pkl_files, templates, request, registered_meshes>>
unionVars == <<HAT_files, HAT_union_image, hemi_index, combined, upc>>
mappingVars ==
    <<TF_image_binary, HAT_data, whole_neuron, cbf, HAT_table, output_csv, kpc, kexit>>
toolVars == <<resetVars, registerVars, unionVars, mappingVars>>
hatVars ==
    <<df, csv, backups, hemilineage, process_whole_neuron, process_cbf, hemi_processor,
      calls, hemi_results, hpc, hexit, saved, batchVars, toolVars>>
vars == <<statsVars, cmpVars, images, mainVars, hatVars>>

NoStats == [mean |-> NoneArr, variance |-> NoneArr, count |-> -1]
NoErr == [kind |-> "none", path |-> 0]

\* the parts of the state a specification does not use
NoCounts == [successful |-> 0, failed |-> 0, skipped |-> 0]

BatchIdle ==
    /\ batches = <<>>
    /\ batch_number = 0
    /\ batch_process_whole_neuron = FALSE
    /\ batch_process_cbf = FALSE
    /\ skip_completed = FALSE
    /\ batch_df = <<>>
    /\ row = 0
    /\ batch_results = [total |-> 0, whole_neuron |-> NoCounts, cbf |-> NoCounts]
    /\ processed = <<>>
    /\ bpc = "idle"

ResetIdle ==
    /\ dry_run = FALSE
    /\ rpc = "idle"
    /\ rexit = -1

RegisterIdle ==
    /\ pkl_files = <<>>
    /\ templates = <<>>
    /\ request = "none"
    /\ registered_meshes = "none"

UnionIdle ==
    /\ HAT_files = <<>>
    /\ HAT_union_image = "None"
    /\ hemi_index = 0
    /\ combined = "none"
    /\ upc = "idle"

MappingIdle ==
    /\ TF_image_binary = <<>>
    /\ HAT_data = <<>>
    /\ whole_neuron = FALSE
    /\ cbf = FALSE
    /\ HAT_table = <<>>
    /\ output_csv = "none"
    /\ kpc = "idle"
    /\ kexit = -1

ToolsIdle == ResetIdle /\ RegisterIdle /\ UnionIdle /\ MappingIdle

HatIdle ==
    /\ saved = "none"
    /\ BatchIdle
    /\ ToolsIdle
    /\ df = <<>>
    /\ csv = [intact |-> FALSE, table |-> <<>>]
    /\ backups = <<>>
    /\ hemilineage = 0
    /\ process_whole_neuron = FALSE
    /\ process_cbf = FALSE
    /\ hemi_processor = "none"
    /\ calls = <<>>
    /\ hemi_results = [whole_neuron |-> "None", cbf |-> "None"]
    /\ hpc = "idle"
    /\ hexit = -1

MainIdle ==
    /\ folder1 = [exists |-> FALSE, listing |-> <<>>]
    /\ folder2 = [exists |-> FALSE, listing |-> <<>>]
    /\ suffix = "nrrd"
    /\ group1_files = <<>>
    /\ group2_files = <<>>
    /\ header = "none"
    /\ mpc = "idle"
    /\ written = <<>>
    /\ exit_code = -1
    /\ message = "none"

StatsIdle ==
    /\ array_paths = <<>>
    /\ pc = "idle"
    /\ n = 0
    /\ mean_arr = NoneArr
    /\ S_arr = NoneArr
    /\ delta = NoneArr
    /\ delta2 = NoneArr
    /\ loading = 0
    /\ resident = {}
    /\ reads = <<>>
    /\ stats = NoStats
    /\ err = NoErr

(***************************************************************************)
(* The input files of the accumulator.                                     *)
(***************************************************************************)
\* the shapes of the files: one broadcasts to the other
Shapes == {<<1, 1, 1>>, <<1, 1, 2>>}

Files == UNION {[shape : {s}, data : [Idx(s) -> 0 .. MaxVal]] : s \in Shapes}

PathLists == UNION {[1 .. len -> Files] : len \in 0 .. MaxPaths}

(***************************************************************************)
(* calculate_online_stats_3d, statement by statement.                      *)
(***************************************************************************)
StatsInit ==
    /\ array_paths \in PathLists
    /\ pc = "start"
    /\ n = 0
    /\ mean_arr = NoneArr
    /\ S_arr = NoneArr
    /\ delta = NoneArr
    /\ delta2 = NoneArr
    /\ loading = 0
    /\ resident = {}
    /\ reads = <<>>
    /\ stats = NoStats
    /\ err = NoErr
    /\ group_a_paths = <<>>
    /\ group_b_paths = <<>>
    /\ alpha = RZero
    /\ tt = NoTTest
    /\ cmp = NotCalled
    /\ images = <<>>
    /\ MainIdle
    /\ HatIdle

\* what each statement leaves unchanged besides the locals it assigns
NotStats == <<array_paths, cmpVars, images, mainVars, hatVars>>

\* the exception leaves the function: its locals are released
Raise(kind, path) ==
    /\ pc' = "raised"
    /\ err' = [kind |-> kind, path |-> path]
    /\ resident' = {}

\* lines 30-31 raising an error for the empty list
ReturnEmptyRaises ==
    /\ pc = "start"
    /\ array_paths = <<>>
    /\ Raise("EmptyGroupError", 0)
    /\ UNCHANGED <<n, mean_arr, S_arr, delta, delta2, loading, reads, stats, NotStats>>

\* lines 30-31: an empty list returns (None, None, 0)
ReturnEmpty ==
    /\ pc = "start"
    /\ array_paths = <<>>
    /\ pc' = "returned"
    /\ stats' = [mean |-> NoneArr, variance |-> NoneArr, count |-> 0]
    /\ UNCHANGED <<n, mean_arr, S_arr, delta, delta2, loading, resident, reads, err, NotStats>>

\* lines 36-40: the first file is read for its shape
LoadFirst ==
    /\ pc = "start"
    /\ array_paths # <<>>
    /\ reads' = Append(reads, 1)
    /\ \/ /\ pc' = "first_loaded"
          /\ resident' = {<<"first_array", 0>>}
          /\ err' = err
       \/ \* np.load / nrrd.read raises
          Raise("read", 1)
    /\ UNCHANGED <<n, mean_arr, S_arr, delta, delta2, loading, stats, NotStats>>

\* lines 42-43: the accumulators are allocated; first_array is alive until
\* the del of line 44
AllocAccumulators ==
    /\ pc = "first_loaded"
    /\ mean_arr' = Zeros(array_paths[1].shape)
    /\ S_arr' = Zeros(array_paths[1].shape)
    /\ resident' = resident \cup {<<"mean_arr", 0>>, <<"S_arr", 0>>}
    /\ pc' = "loop"
    /\ UNCHANGED <<n, delta, delta2, loading, reads, stats, err, NotStats>>

\* the arrays released when a pass of the loop ends: first_array (line 44) before
\* the first pass, the temporary delta * delta2 of line 59 before the others
EndOfPass == {o \in resident : o[1] \in {"first_array", "temp"}}

\* lines 47-52: np.load(path) or nrrd.read(path) returns the array of the next
\* path; current_array, delta and delta2 still hold the arrays of the pass before
ReadArray ==
    /\ pc = "loop"
    /\ n < Len(array_paths)
    /\ reads' = Append(reads, n + 1)
    /\ loading' = n + 1
    /\ \/ /\ pc' \in {"read_npy", "read_nrrd"}
          /\ resident' = (resident \ EndOfPass) \cup {<<"raw", n + 1>>}
          /\ err' = err
       \/ \* np.load / nrrd.read raises
          Raise("read", n + 1)
    /\ UNCHANGED <<n, mean_arr, S_arr, delta, delta2, stats, NotStats>>

\* lines 50 and 52-53: astype(np.float64) makes the float64 copy of the array
\* read. For an .nrrd path the assignment of line 52 has bound current_array
\* to the array read, which releases the array of the pass before; for a .npy
\* path current_array is assigned only after the copy is made
ConvertArray ==
    /\ pc \in {"read_npy", "read_nrrd"}
    /\ resident' =
          (IF pc = "read_nrrd" THEN resident \ {<<"input", loading - 1>>} ELSE resident)
              \cup {<<"input", loading>>}
    /\ pc' = "converted"
    /\ UNCHANGED <<n, mean_arr, S_arr, delta, delta2, loading, reads, stats, err, NotStats>>

\* ComputeDelta when every array read is kept (the inputs collected in a list)
ComputeDeltaKeepsInputs ==
    /\ pc = "converted"
    /\ n' = n + 1
    /\ delta' = ArrSub(AsFloat64(array_paths[loading]), mean_arr)
    /\ resident' = resident \cup {<<"delta", loading>>}
    /\ pc' = "delta"
    /\ UNCHANGED <<mean_arr, S_arr, delta2, loading, reads, stats, err, NotStats>>

\* lines 50/53, 55 and 56: current_array is bound to the float64 copy, which
\* releases the array read and the array of the pass before; n is
\* incremented; current_array - mean_arr is computed while delta still holds
\* the difference of the pass before
ComputeDelta ==
    /\ pc = "converted"
    /\ n' = n + 1
    /\ LET current_array == AsFloat64(array_paths[loading])
       IN  IF ~Broadcastable(current_array.shape, mean_arr.shape)
           THEN /\ Raise("ValueError", 0)
                /\ delta' = delta
           ELSE /\ delta' = ArrSub(current_array, mean_arr)
                /\ resident' = (resident \ {<<"raw", loading>>, <<"input", loading - 1>>})
                                  \cup {<<"delta", loading>>}
                /\ pc' = "delta"
                /\ err' = err
    /\ UNCHANGED <<mean_arr, S_arr, delta2, loading, reads, stats, NotStats>>

\* lines 56-57: delta is bound to the new difference; delta / n is computed
\* and added to mean_arr in place
UpdateMean ==
    /\ pc = "delta"
    /\ IF ~InPlaceOk(mean_arr, delta)
       THEN /\ Raise("ValueError", 0)
            /\ mean_arr' = mean_arr
       ELSE /\ mean_arr' = MeanUpdate(mean_arr, delta, n)
            /\ resident' = (resident \ {<<"delta", loading - 1>>}) \cup {<<"temp", loading>>}
            /\ pc' = "mean"
            /\ err' = err
    /\ UNCHANGED <<n, S_arr, delta, delta2, loading, reads, stats, NotStats>>

\* line 58: current_array - mean_arr is computed while delta2 still holds the
\* difference of the pass before
ComputeDelta2 ==
    /\ pc = "mean"
    /\ delta2' = ArrSub(AsFloat64(array_paths[loading]), mean_arr)
    /\ resident' = (resident \ {<<"temp", loading>>}) \cup {<<"delta2", loading>>}
    /\ pc' = "delta2"
    /\ UNCHANGED <<n, mean_arr, S_arr, delta, loading, reads, stats, err, NotStats>>

\* lines 58-59: delta2 is bound to the new difference; delta * delta2 is
\* computed and added to S_arr in place
UpdateS ==
    /\ pc = "delta2"
    /\ S_arr' = SUpdate(S_arr, delta, delta2)
    /\ resident' = (resident \ {<<"delta2", loading - 1>>}) \cup {<<"temp", loading>>}
    /\ pc' = "loop"
    /\ UNCHANGED <<n, mean_arr, delta, delta2, loading, reads, stats, err, NotStats>>

\* lines 61-65: the variance array is allocated
ComputeVariance ==
    /\ pc = "loop"
    /\ n = Len(array_paths)
    /\ resident' = (resident \ EndOfPass) \cup {<<"variance_arr", 0>>}
    /\ pc' = "variance"
    /\ UNCHANGED <<n, mean_arr, S_arr, delta, delta2, loading, reads, stats, err, NotStats>>

\* lines 67-68: the tuple is returned; the caller holds the mean and the variance
ReturnStats ==
    /\ pc = "variance"
    /\ stats' = [mean |-> mean_arr, variance |-> Variance(S_arr, n), count |-> n]
    /\ resident' = {<<"mean_arr", 0>>, <<"variance_arr", 0>>}
    /\ pc' = "returned"
    /\ UNCHANGED <<n, mean_arr, S_arr, delta, delta2, loading, reads, err, NotStats>>

StatsNext ==
    \/ ReturnEmpty
    \/ LoadFirst
    \/ AllocAccumulators
    \/ ReadArray
    \/ ConvertArray
    \/ ComputeDelta
    \/ UpdateMean
    \/ ComputeDelta2
    \/ UpdateS
    \/ ComputeVariance
    \/ ReturnStats

SpecStats == StatsInit /\ [][StatsNext]_vars

(***************************************************************************)
(* compare_groups_voxelwise called on two groups of binary volumes.        *)
(***************************************************************************)
\* longest group handed to one call of compare_groups_voxelwise
MaxGroup == 2

\* the shape of the volumes of a comparison
VolShape == <<1, 1, 2>>

\* binary volumes
Volumes == [shape : {VolShape}, data : [Idx(VolShape) -> {0, 1}]]

Groups == UNION {[1 .. len -> Volumes] : len \in 0 .. MaxGroup}

\* the significance levels: the default of the command line, and 1/2
Alphas == {Rat(1, 20), Rat(1, 2)}

CompareInit ==
    /\ StatsIdle
    /\ group_a_paths \in Groups
    /\ group_b_paths \in Groups
    /\ alpha \in Alphas
    /\ tt = NoTTest
    /\ cmp = NotCalled
    /\ images = <<>>
    /\ MainIdle
    /\ HatIdle

\* the call returns a result or raises
Compare ==
    /\ cmp.status = "none"
    /\ cmp' \in compare_groups_voxelwise(group_a_paths, group_b_paths, alpha)
    /\ UNCHANGED <<hatVars, statsVars, group_a_paths, group_b_paths, alpha, tt, images, mainVars>>

\* a file cannot be read: np.load / nrrd.read raises inside the accumulator
CompareReadFails ==
    /\ cmp.status = "none"
    /\ ReadsAnyFile(group_a_paths, group_b_paths)
    /\ cmp' = Raised("read")
    /\ UNCHANGED <<hatVars, statsVars, group_a_paths, group_b_paths, alpha, tt, images, mainVars>>

CompareNext == Compare \/ CompareReadFails

SpecCompare == CompareInit /\ [][CompareNext]_vars

(***************************************************************************)
(* The FDR stage of compare_groups_voxelwise (lines 105-126) on a volume   *)
(* of uncorrected p-values.                                                *)
(***************************************************************************)
\* the p-values of the volume are the multiples of 1/PGrid in [0, 1]
PGrid == 4

\* the shape of the volume of p-values
FdrShape == <<1, 2, 2>>

PVolumes ==
    [shape : {FdrShape}, data : [Idx(FdrShape) -> {Rat(g, PGrid) : g \in 0 .. PGrid}]]

FdrInit ==
    /\ StatsIdle
    /\ group_a_paths = <<>>
    /\ group_b_paths = <<>>
    /\ alpha \in Alphas
    /\ \E pv \in PVolumes :
          tt = [t_stats |-> Zeros(FdrShape), p_values |-> pv,
                mean_diff |-> Zeros(FdrShape)]
    /\ cmp = NotCalled
    /\ images = <<>>
    /\ MainIdle
    /\ HatIdle

\* lines 105-126 for one of the orders np.argsort may return
FdrCorrect ==
    /\ cmp.status = "none"
    /\ \E perm \in ArgSorts(Flatten(tt.p_values)) :
          cmp' = [status |-> "returned", error |-> "none",
                  results |-> FdrStage(tt, alpha, perm)]
    /\ UNCHANGED <<hatVars, statsVars, group_a_paths, group_b_paths, alpha, tt, images, mainVars>>

FdrNext == FdrCorrect

SpecFdr == FdrInit /\ [][FdrNext]_vars

(***************************************************************************)
(* The three calls of visualize_single_projection (lines 334-342) on a     *)
(* result volume.                                                          *)
(***************************************************************************)
\* the mean differences of the volume are the integers -MaxDiff..MaxDiff
MaxDiff == 1

\* the shape of the projected volume
ProjShape == <<2, 2, 1>>

ProjInit ==
    /\ StatsIdle
    /\ group_a_paths = <<>>
    /\ group_b_paths = <<>>
    /\ alpha = Rat(1, 20)
    /\ tt = NoTTest
    /\ \E md \in [Idx(ProjShape) -> -MaxDiff .. MaxDiff], mask \in [Idx(ProjShape) -> BOOLEAN] :
          cmp = [status |-> "returned", error |-> "none",
                 results |->
                    [t_statistics |->
                        [shape |-> ProjShape,
                         data |-> [v \in Idx(ProjShape) |->
                                    TFin(RSign(RInt(md[v])), RInt(md[v] * md[v]))]],
                     p_values_uncorrected |-> Zeros(ProjShape),
                     p_values_corrected_fdr |-> Zeros(ProjShape),
                     significant_mask_fdr |-> [shape |-> ProjShape, data |-> mask],
                     mean_diff |->
                        [shape |-> ProjShape,
                         data |-> [v \in Idx(ProjShape) |-> RInt(md[v])]]]]
    /\ images = <<>>
    /\ MainIdle
    /\ HatIdle

\* lines 334-342: the next axis is projected and its image saved
Visualize ==
    /\ cmp.status = "returned"
    /\ Len(images) < 3
    /\ images' = Append(images,
                    visualize_single_projection(cmp.results.t_statistics,
                                                cmp.results.significant_mask_fdr,
                                                cmp.results.mean_diff,
                                                Len(images)))
    /\ UNCHANGED <<hatVars, statsVars, cmpVars, mainVars>>

ProjNext == Visualize

SpecProj == ProjInit /\ [][ProjNext]_vars

(***************************************************************************)
(* The command-line run: the main block, lines 303-368.                    *)
(***************************************************************************)
\* most files with the suffix in one folder
MaxFolder == 2

Listings == UNION {[1 .. len -> Volumes] : len \in 0 .. MaxFolder}

Folders ==
    {[exists |-> FALSE, listing |-> <<>>]} \cup [exists : {TRUE}, listing : Listings]

\* the output volumes of save_results, in the order it writes them
OutputNames ==
    <<"t_statistics", "p_values_uncorrected", "p_values_corrected_fdr",
      "significant_mask_fdr", "mean_difference">>

\* the key of the results each output volume is taken from
OutputKey(name) == IF name = "mean_difference" THEN "mean_diff" ELSE name

Init ==
    /\ StatsIdle
    /\ group_a_paths = <<>>
    /\ group_b_paths = <<>>
    /\ alpha \in Alphas
    /\ tt = NoTTest
    /\ cmp = NotCalled
    /\ images = <<>>
    /\ folder1 \in Folders
    /\ folder2 \in Folders
    /\ suffix \in {"nrrd", "npy"}
    /\ group1_files = <<>>
    /\ group2_files = <<>>
    /\ header = "none"
    /\ mpc = "get_files1"
    /\ written = <<>>
    /\ exit_code = -1
    /\ message = "none"
    /\ HatIdle

\* lines 358-360: an exception reaches the outer handler
ExitWithError(msg) ==
    /\ mpc' = "exited"
    /\ exit_code' = 1
    /\ message' = msg

\* a MemoryError that reaches the outer handler instead
ExitOutOfMemoryGeneric ==
    /\ mpc' = "exited"
    /\ exit_code' = 1
    /\ message' = "Error: MemoryError"

\* lines 353-356: a MemoryError reaches the inner handler
ExitOutOfMemory ==
    /\ mpc' = "exited"
    /\ exit_code' = 1
    /\ message' = "ERROR: The system ran out of memory while processing the results."

\* get_files_with_suffix (lines 281-301): the error it raises, "none" if none
get_files_with_suffix_error(folder) ==
    IF ~folder.exists THEN "Error: Folder not found"
    ELSE IF folder.listing = <<>> THEN "Error: No files with suffix found"
    ELSE "none"

\* line 315
GetFiles1 ==
    /\ mpc = "get_files1"
    /\ IF get_files_with_suffix_error(folder1) # "none"
       THEN /\ ExitWithError(get_files_with_suffix_error(folder1))
            /\ UNCHANGED group1_files
       ELSE /\ group1_files' = folder1.listing
            /\ mpc' = "get_files2"
            /\ UNCHANGED <<exit_code, message>>
    /\ UNCHANGED <<hatVars, statsVars, cmpVars, images, folder1, folder2, suffix, group2_files,
                   header, written>>

\* line 316
GetFiles2 ==
    /\ mpc = "get_files2"
    /\ IF get_files_with_suffix_error(folder2) # "none"
       THEN /\ ExitWithError(get_files_with_suffix_error(folder2))
            /\ UNCHANGED group2_files
       ELSE /\ group2_files' = folder2.listing
            /\ mpc' = "read_header"
            /\ UNCHANGED <<exit_code, message>>
    /\ UNCHANGED <<hatVars, statsVars, cmpVars, images, folder1, folder2, suffix, group1_files,
                   header, written>>

\* line 322: nrrd.read of the first file of group 1; it raises on a file that
\* is not in the NRRD format, and when the file cannot be read
ReadHeader ==
    /\ mpc = "read_header"
    /\ \/ /\ suffix = "nrrd"
          /\ header' = "header of group1_files[0]"
          /\ mpc' = "compare"
          /\ UNCHANGED <<exit_code, message>>
       \/ /\ ExitWithError("Error: nrrd.read failed")
          /\ UNCHANGED header
    /\ UNCHANGED <<hatVars, statsVars, cmpVars, images, folder1, folder2, suffix, group1_files,
                   group2_files, written>>

\* a failed read that is swallowed: the comparison goes on over the files
CompareOutcomesReadErrorSwallowed(group_a, group_b, alpha_) ==
    compare_groups_voxelwise(group_a, group_b, alpha_)
        \cup (IF ReadsAnyFile(group_a, group_b)
              THEN {[r EXCEPT !.error = "read"] :
                        r \in compare_groups_voxelwise(group_a, group_b, alpha_)}
              ELSE {})

\* the outcomes of the call of line 325: those of compare_groups_voxelwise,
\* and the exception of a read that fails inside the accumulator
CompareOutcomes(group_a, group_b, alpha_) ==
    compare_groups_voxelwise(group_a, group_b, alpha_)
        \cup (IF ReadsAnyFile(group_a, group_b) THEN {Raised("read")} ELSE {})

\* line 325
MainCompare ==
    /\ mpc = "compare"
    /\ group_a_paths' = group1_files
    /\ group_b_paths' = group2_files
    /\ cmp' \in CompareOutcomes(group1_files, group2_files, alpha)
    /\ IF cmp'.status = "raised"
       THEN ExitWithError("Error: compare_groups_voxelwise raised")
       ELSE /\ mpc' = "save"
            /\ UNCHANGED <<exit_code, message>>
    /\ UNCHANGED <<hatVars, statsVars, alpha, tt, images, folder1, folder2, suffix, group1_files,
                   group2_files, header, written>>

\* the volume nrrd.write stores: the mask as uint8, the others as float32
OutputVolume(results, name) ==
    IF name = "significant_mask_fdr"
    THEN [name |-> name, dtype |-> "uint8",
          data |-> [shape |-> results.significant_mask_fdr.shape,
                    data |-> Stored([v \in Idx(results.significant_mask_fdr.shape) |->
                                IF results.significant_mask_fdr.data[v] THEN 1 ELSE 0])]]
    ELSE [name |-> name, dtype |-> "float32", data |-> results[OutputKey(name)]]

\* WriteVolume removing the files already written when a write fails
WriteVolumeRollsBack ==
    /\ mpc = "save"
    /\ Len(written) < Len(OutputNames)
    /\ \/ /\ written' = Append(written,
                            OutputVolume(cmp.results, OutputNames[Len(written) + 1]))
          /\ mpc' = IF Len(written') = Len(OutputNames) THEN "visualize" ELSE "save"
          /\ UNCHANGED <<exit_code, message>>
       \/ /\ ExitWithError("Error: nrrd.write failed")
          /\ written' = <<>>
       \/ /\ ExitOutOfMemory
          /\ written' = <<>>
    /\ UNCHANGED <<hatVars, statsVars, cmpVars, images, folder1, folder2, suffix, group1_files,
                   group2_files, header>>

\* save_results (lines 245-279, called at line 330): the next nrrd.write
WriteVolume ==
    /\ mpc = "save"
    /\ Len(written) < Len(OutputNames)
    /\ \/ /\ written' = Append(written,
                            OutputVolume(cmp.results, OutputNames[Len(written) + 1]))
          /\ mpc' = IF Len(written') = Len(OutputNames) THEN "visualize" ELSE "save"
          /\ UNCHANGED <<exit_code, message>>
       \/ \* nrrd.write raises an I/O error
          /\ ExitWithError("Error: nrrd.write failed")
          /\ UNCHANGED written
       \/ \* the astype copy raises MemoryError
          /\ ExitOutOfMemory
          /\ UNCHANGED written
    /\ UNCHANGED <<hatVars, statsVars, cmpVars, images, folder1, folder2, suffix, group1_files,
                   group2_files, header>>

\* MainVisualize with diff_mask built in mean_diff itself, not in a copy
MainVisualizeMasksInPlace ==
    /\ mpc = "visualize"
    /\ images' = Append(images,
              visualize_single_projection(cmp.results.t_statistics,
                                          cmp.results.significant_mask_fdr,
                                          cmp.results.mean_diff,
                                          Len(images)))
    /\ cmp' = [cmp EXCEPT !.results.mean_diff =
                  DiffMask(cmp.results.significant_mask_fdr, cmp.results.mean_diff)]
    /\ mpc' = IF Len(images') = 3 THEN "summary" ELSE "visualize"
    /\ UNCHANGED <<hatVars, statsVars, group_a_paths, group_b_paths, alpha, tt, folder1, folder2,
                   suffix, group1_files, group2_files, header, written, exit_code,
                   message>>

\* lines 334-345: the projection of the next axis
MainVisualize ==
    /\ mpc = "visualize"
    /\ \/ /\ images' = Append(images,
                    visualize_single_projection(cmp.results.t_statistics,
                                                cmp.results.significant_mask_fdr,
                                                cmp.results.mean_diff,
                                                Len(images)))
          /\ mpc' = IF Len(images') = 3 THEN "summary" ELSE "visualize"
          /\ UNCHANGED <<exit_code, message>>
       \/ \* fig.savefig raises an I/O error
          /\ ExitWithError("Error: savefig failed")
          /\ UNCHANGED images
       \/ \* an allocation raises MemoryError
          /\ ExitOutOfMemory
          /\ UNCHANGED images
    /\ UNCHANGED <<hatVars, statsVars, cmpVars, folder1, folder2, suffix, group1_files,
                   group2_files, header, written>>

\* lines 347-351: the summary is printed and the run ends
PrintSummary ==
    /\ mpc = "summary"
    /\ mpc' = "exited"
    /\ exit_code' = 0
    /\ message' = "Analysis complete."
    /\ UNCHANGED <<hatVars, statsVars, cmpVars, images, folder1, folder2, suffix, group1_files,
                   group2_files, header, written>>

Next ==
    \/ GetFiles1
    \/ GetFiles2
    \/ ReadHeader
    \/ MainCompare
    \/ WriteVolume
    \/ MainVisualize
    \/ PrintSummary

Spec == Init /\ [][Next]_vars

(***************************************************************************)
(* Claims about calculate_online_stats_3d (specification SpecStats).       *)
(***************************************************************************)
SameShaped(paths) == \A j \in 1 .. Len(paths) : paths[j].shape = paths[1].shape

RECURSIVE SumTo(_, _, _)
\* the sum of the values at index i of the first len arrays
SumTo(paths, i, len) ==
    IF len = 0 THEN RZero ELSE RAdd(SumTo(paths, i, len - 1), RInt(paths[len].data[i]))

\* the two-pass mean at index i: all arrays loaded, summed, divided by N
TwoPassMean(paths, i) == RDiv(SumTo(paths, i, Len(paths)), RInt(Len(paths)))

RECURSIVE SumSqDevTo(_, _, _, _)
SumSqDevTo(paths, i, m, len) ==
    IF len = 0 THEN RZero
    ELSE LET d == RSub(RInt(paths[len].data[i]), m)
         IN  RAdd(SumSqDevTo(paths, i, m, len - 1), RMul(d, d))

\* the two-pass sample variance at index i (N >= 2)
TwoPassVar(paths, i) ==
    RDiv(SumSqDevTo(paths, i, TwoPassMean(paths, i), Len(paths)), RInt(Len(paths) - 1))

\* C1: for every non-empty list of same-shaped arrays the returned mean is the
\* two-pass elementwise mean, the returned variance (two arrays or more) is
\* the two-pass sample variance with the N-1 denominator, and the count is
\* the number of paths.
C1_WelfordEqualsTwoPass ==
    (pc = "returned" /\ array_paths # <<>> /\ SameShaped(array_paths)) =>
        /\ stats.count = Len(array_paths)
        /\ stats.mean.shape = array_paths[1].shape
        /\ stats.variance.shape = array_paths[1].shape
        /\ \A i \in Idx(array_paths[1].shape) :
              /\ stats.mean.data[i] = TwoPassMean(array_paths, i)
              /\ Len(array_paths) >= 2 =>
                    stats.variance.data[i] = TwoPassVar(array_paths, i)

\* C1 witness: three same-shaped arrays, not all equal, have been accumulated
\* and the variance is not zero everywhere.
C1_Witness ==
    /\ pc = "returned"
    /\ Len(array_paths) = 3
    /\ SameShaped(array_paths)
    /\ array_paths[1].shape = <<1, 1, 2>>
    /\ array_paths[1] # array_paths[2]
    /\ \E i \in Idx(stats.variance.shape) : stats.variance.data[i] # RZero

\* C7 as claimed: a call with an empty path sequence fails with an error and
\* does not return a statistics tuple.
C7_EmptyFails ==
    (array_paths = <<>> /\ pc # "start") => (pc = "raised" /\ stats = NoStats)

\* C7 as amended: a call with an empty path sequence returns the tuple
\* (None, None, 0) without reading any file and without raising.
C7_EmptyReturnsNoneAndZero ==
    (array_paths = <<>> /\ pc # "start") =>
        /\ pc = "returned"
        /\ stats = [mean |-> NoneArr, variance |-> NoneArr, count |-> 0]
        /\ reads = <<>>
        /\ err = NoErr

\* C7 witness: the call with the empty sequence has returned.
C7_Witness == array_paths = <<>> /\ pc = "returned"

\* the arrays folded into mean_arr so far: n is incremented (line 55) before
\* the update of the mean (line 57)
Folded == IF pc = "delta" \/ (pc = "raised" /\ err.kind = "ValueError") THEN n - 1 ELSE n

\* C8 as claimed: every array whose shape differs from the shape of the first
\* array makes the call fail with an error that names the offending path, and
\* no such array (a broadcast-compatible one included) is folded into the
\* running mean and S.
C8_ShapeMismatchRejected ==
    /\ \A j \in 1 .. Len(array_paths) :
          array_paths[j].shape # array_paths[1].shape => Folded < j
    /\ (pc = "raised" /\ err.kind = "ValueError") =>
          /\ err.path = n
          /\ array_paths[n].shape # array_paths[1].shape

\* the arrays alive that hold the data of an input file: the array a read
\* returned, and its float64 copy
ResidentInputs == {o \in resident : o[1] \in {"first_array", "raw", "input"}}

\* mean_arr and S_arr are the result of folding exactly the first k arrays
FoldedExactly(k) ==
    LET st == StatsLoop(SubSeq(array_paths, 1, k), 1,
                        [raised |-> FALSE, n |-> 0,
                         mean_arr |-> Zeros(array_paths[1].shape),
                         S_arr |-> Zeros(array_paths[1].shape)])
    IN  /\ ~st.raised
        /\ mean_arr = st.mean_arr
        /\ S_arr = st.S_arr

ZeroVarianceAt(group, i) == calculate_online_stats_3d(group).variance.data[i] = RZero

\* C2 as claimed: at every voxel at which both groups have zero variance the
\* returned t-statistic is 0 and the uncorrected p-value is 1, also when the
\* two group means differ there; no NaN or infinite value is returned.
C2_ZeroVarianceGivesZeroT ==
    cmp.status = "returned" =>
        \A i \in Idx(cmp.results.t_statistics.shape) :
            /\ cmp.results.t_statistics.data[i].kind = "fin"
            /\ (ZeroVarianceAt(group_a_paths, i) /\ ZeroVarianceAt(group_b_paths, i)) =>
                  /\ cmp.results.t_statistics.data[i] = TZero
                  /\ cmp.results.p_values_uncorrected.data[i] = ROne

TNeg(t) == [t EXCEPT !.sgn = -t.sgn]
TAbs(t) == [t EXCEPT !.sgn = Abs(t.sgn)]

\* C5: swapping the two groups negates t_statistics and mean_diff at every
\* voxel and leaves |t|, the uncorrected and corrected p-values and the
\* significance mask unchanged at every voxel, degenerate voxels included.
C5_SwapNegates ==
    cmp.status = "returned" =>
        \A o \in compare_groups_voxelwise(group_b_paths, group_a_paths, alpha) :
            /\ o.status = "returned"
            /\ \A i \in Idx(cmp.results.t_statistics.shape) :
                  /\ o.results.t_statistics.data[i] =
                        TNeg(cmp.results.t_statistics.data[i])
                  /\ TAbs(o.results.t_statistics.data[i]) =
                        TAbs(cmp.results.t_statistics.data[i])
                  /\ o.results.mean_diff.data[i] = RNeg(cmp.results.mean_diff.data[i])
            /\ o.results.p_values_uncorrected = cmp.results.p_values_uncorrected
            /\ o.results.p_values_corrected_fdr = cmp.results.p_values_corrected_fdr
            /\ o.results.significant_mask_fdr = cmp.results.significant_mask_fdr

\* C5 witness: a comparison has returned with a finite non-zero t-statistic
\* at one voxel and a degenerate voxel (zero variance in both groups) beside it.
C5_Witness ==
    /\ cmp.status = "returned"
    /\ \E i, j \in Idx(cmp.results.t_statistics.shape) :
          /\ cmp.results.t_statistics.data[i].kind = "fin"
          /\ cmp.results.t_statistics.data[i].sgn # 0
          /\ cmp.results.mean_diff.data[i] # RZero
          /\ ZeroVarianceAt(group_a_paths, j)
          /\ ZeroVarianceAt(group_b_paths, j)

\* the largest rank a with p_(a) <= (a/m) * alpha, 0 when there is none
LargestRank(pvals, alpha_, perm) ==
    LET m == Len(pvals)
        ok == {a \in 1 .. m : RLe(pvals[perm[a]], RMul(Rat(a, m), alpha_))}
    IN  IF ok = {} THEN 0 ELSE CHOOSE a \in ok : \A b \in ok : b <= a

\* C4: significant_mask_fdr is true at exactly the voxels whose corrected
\* p-value is at most alpha, which are exactly the voxels whose rank is at
\* or below the largest rank i with p_(i) <= (i/m)*alpha over all m voxels.
C4_MaskIsCorrectedAtMostAlpha ==
    cmp.status = "returned" =>
        LET pvals == Flatten(cmp.results.p_values_uncorrected)
            corrected == Flatten(cmp.results.p_values_corrected_fdr)
            mask == Flatten(cmp.results.significant_mask_fdr)
        IN  /\ \A q \in 1 .. Len(pvals) : mask[q] <=> RLe(corrected[q], alpha)
            /\ \A perm \in ArgSorts(pvals) :
                  \A a \in 1 .. Len(pvals) :
                      mask[perm[a]] <=> a <= LargestRank(pvals, alpha, perm)

\* C4 witness: the correction has marked some voxels and not others, and the
\* smallest p-value is above its own threshold (1/m)*alpha: it is significant
\* only by the step up to the largest rank.
C4_Witness ==
    /\ cmp.status = "returned"
    /\ LET pvals == Flatten(cmp.results.p_values_uncorrected)
           mask == Flatten(cmp.results.significant_mask_fdr)
       IN  /\ \E q \in 1 .. Len(pvals) : mask[q]
           /\ \E q \in 1 .. Len(pvals) : ~mask[q]
           /\ \A q \in 1 .. Len(pvals) : RLt(RMul(Rat(1, Len(pvals)), alpha), pvals[q])

(***************************************************************************)
(* Claims about visualize_single_projection (specification SpecProj).      *)
(***************************************************************************)
\* C3 as claimed: for every axis and every output pixel the signed
\* mean-difference projection is the significance-masked mean difference at
\* an index along the axis where its absolute value is maximal, sign
\* preserved, for every position of that maximum, index 0 included.
C3_SignedProjectionAtArgmax ==
    \A k \in 1 .. Len(images) :
        LET img == images[k]
            diff_mask == DiffMask(cmp.results.significant_mask_fdr, cmp.results.mean_diff)
            len == diff_mask.shape[img.axis_idx + 1]
        IN  \A px \in Pixels(diff_mask.shape, img.axis_idx) :
                \E idx \in 0 .. len - 1 :
                    LET at(o) == diff_mask.data[VoxelAt(img.axis_idx, px[1], px[2], o)]
                    IN  /\ \A o \in 0 .. len - 1 : RLe(RAbs(at(o)), RAbs(at(idx)))
                        /\ img.diff_proj[px] = at(idx)


(***************************************************************************)
(* Claims about the command-line run.                                      *)
(***************************************************************************)
Compared == cmp.status # "none"

TooFew == Len(group_a_paths) < 2 \/ Len(group_b_paths) < 2

Aborted ==
    /\ cmp.status = "raised"
    /\ cmp.results = NoResults
    /\ written = <<>>
    /\ images = <<>>
    /\ mpc = "exited"
    /\ exit_code # 0

\* C6: when either group has fewer than two arrays, compare_groups_voxelwise
\* raises and returns no result, and the run exits non-zero having written
\* none of the five output volumes and no projection image.
C6_TooFewArraysAborts == (Compared /\ TooFew) => Aborted

C6_Witness ==
    /\ Compared
    /\ Len(group_a_paths) = 2
    /\ Len(group_b_paths) = 1
    /\ cmp.error = "ValueError: at least two arrays"
    /\ exit_code = 1
    /\ written = <<>>

\* C9: when the read of a file of either group fails during accumulation, the
\* comparison raises: no statistics over the other files are returned, no
\* output volume and no image is written, and the run exits non-zero.
C9_ReadFailureAborts == (Compared /\ cmp.error = "read") => Aborted

C9_Witness ==
    /\ cmp = Raised("read")
    /\ Len(group_a_paths) = 2
    /\ Len(group_b_paths) = 2
    /\ mpc = "exited"
    /\ exit_code = 1
    /\ written = <<>>

\* the run is past the read of the header (line 322)
HeaderStepDone ==
    /\ group1_files # <<>>
    /\ group2_files # <<>>
    /\ mpc \notin {"get_files1", "get_files2", "read_header"}

\* C11 as claimed: when the suffix selects .npy files, the run substitutes a
\* minimal synthetic header (type and dimension) and goes on to write the
\* five output volumes with it.
C11_NpySyntheticHeader ==
    (suffix = "npy" /\ HeaderStepDone) =>
        /\ header = "synthetic header: type, dimension"
        /\ ~(mpc = "exited" /\ cmp = NotCalled)

OutOfMemoryMessage == "ERROR: The system ran out of memory while processing the results."

GenericMessages ==
    {"Error: Folder not found", "Error: No files with suffix found",
     "Error: nrrd.read failed", "Error: compare_groups_voxelwise raised",
     "Error: nrrd.write failed", "Error: savefig failed"}

\* C12: the run exits non-zero with a printed message when a folder is
\* missing, when no file matches the suffix, and when a group has fewer than
\* two files; a MemoryError raised while saving or projecting is reported
\* with the out-of-memory message, never with the generic one, and exits
\* non-zero; the exit code is 0 exactly when the run ended with no error,
\* five volumes and three images written.
C12_ExitCodes ==
    /\ mpc = "exited" <=> exit_code # -1
    /\ mpc = "exited" =>
          /\ exit_code \in {0, 1}
          /\ message \in GenericMessages \cup {OutOfMemoryMessage, "Analysis complete."}
          /\ exit_code = 0 <=> message = "Analysis complete."
          /\ exit_code = 0 <=>
                (cmp.status = "returned" /\ Len(written) = 5 /\ Len(images) = 3)
          /\ message = OutOfMemoryMessage => cmp.status = "returned"
    /\ (mpc # "get_files1" /\ ~folder1.exists) =>
          (exit_code = 1 /\ message = "Error: Folder not found")
    /\ (mpc # "get_files1" /\ folder1.exists /\ folder1.listing = <<>>) =>
          (exit_code = 1 /\ message = "Error: No files with suffix found")
    /\ (mpc \notin {"get_files1", "get_files2"} /\ group1_files # <<>>
            /\ ~folder2.exists) =>
          (exit_code = 1 /\ message = "Error: Folder not found")
    /\ (mpc \notin {"get_files1", "get_files2"} /\ group1_files # <<>>
            /\ folder2.exists /\ folder2.listing = <<>>) =>
          (exit_code = 1 /\ message = "Error: No files with suffix found")
    /\ (Compared /\ TooFew) =>
          (exit_code = 1 /\ message = "Error: compare_groups_voxelwise raised")

\* C12 witness: the run has exited on a MemoryError raised while saving,
\* after two volumes were written.
C12_Witness ==
    /\ mpc = "exited"
    /\ message = OutOfMemoryMessage
    /\ exit_code = 1
    /\ Len(written) = 2

\* the volumes written are the first ones of the fixed order, each the
\* conversion of its result array
WrittenInOrder ==
    /\ Len(written) <= 5
    /\ \A k \in 1 .. Len(written) :
          /\ written[k].name =
                <<"t_statistics", "p_values_uncorrected", "p_values_corrected_fdr",
                  "significant_mask_fdr", "mean_difference">>[k]
          /\ written[k] = OutputVolume(cmp.results, written[k].name)

\* C13: the five volumes are written in the order t_statistics,
\* p_values_uncorrected, p_values_corrected_fdr, significant_mask_fdr,
\* mean_difference; no step removes or changes a volume already written;
\* after a failed write no further volume is written and the run exits
\* non-zero.
C13_PartialWritesKept ==
    /\ [](WrittenInOrder /\ (Len(written) \in 1 .. 4 => mpc \in {"save", "exited"})
                         /\ ((mpc = "exited" /\ Len(written) < 5) => exit_code = 1))
    /\ [][/\ Len(written') >= Len(written)
          /\ SubSeq(written', 1, Len(written)) = written
          /\ mpc = "exited" => written' = written]_vars

\* C13 witness: the third write has failed with an I/O error: two volumes are
\* on disk and the run has exited with status 1.
C13_Witness ==
    /\ mpc = "exited"
    /\ message = "Error: nrrd.write failed"
    /\ exit_code = 1
    /\ Len(written) = 2
    /\ written[2].name = "p_values_uncorrected"

(***************************************************************************)
(* Further claims about the accumulator and the comparison.                *)
(***************************************************************************)
\* C14: called with exactly one path, calculate_online_stats_3d returns that
\* array as the mean, an all-zero variance of the same shape, and count 1;
\* nothing but a failing read makes it raise.
C14_SingleArray ==
    Len(array_paths) = 1 =>
        /\ pc = "returned" =>
              /\ stats.count = 1
              /\ stats.mean = AsFloat64(array_paths[1])
              /\ stats.variance = Zeros(array_paths[1].shape)
              /\ err = NoErr
        /\ pc = "raised" => err.kind = "read"

\* C14 witness: the call with one array of two voxels, not all zero, has
\* returned.
C14_Witness ==
    /\ pc = "returned"
    /\ Len(array_paths) = 1
    /\ array_paths[1].shape = <<1, 1, 2>>
    /\ array_paths[1].data[<<0, 0, 1>>] = 1

\* every array of both groups is the same array
AllSameArray ==
    /\ Len(group_a_paths) >= 2
    /\ Len(group_b_paths) >= 2
    /\ \A j \in 1 .. Len(group_a_paths) : group_a_paths[j] = group_a_paths[1]
    /\ \A j \in 1 .. Len(group_b_paths) : group_b_paths[j] = group_a_paths[1]

\* C15: when every array of both groups is the same array (a constant array
\* included) and each group has two arrays or more, the comparison returns
\* t = 0 and uncorrected p = 1 at every voxel, mean_diff = 0 everywhere, and
\* a significance mask that is false everywhere, for every alpha < 1.
C15_IdenticalGroups ==
    (cmp.status # "none" /\ cmp.error # "read" /\ AllSameArray /\ RLt(alpha, ROne)) =>
        /\ cmp.status = "returned"
        /\ \A i \in Idx(VolShape) :
              /\ cmp.results.t_statistics.data[i] = TZero
              /\ cmp.results.p_values_uncorrected.data[i] = ROne
              /\ cmp.results.mean_diff.data[i] = RZero
              /\ cmp.results.significant_mask_fdr.data[i] = FALSE

\* C15 witness: two groups of two arrays, every array the constant 1, have
\* been compared.
C15_Witness ==
    /\ cmp.status = "returned"
    /\ AllSameArray
    /\ Len(group_b_paths) = 2
    /\ \A i \in Idx(VolShape) : group_a_paths[1].data[i] = 1

\* C16: for every pair of voxels, an uncorrected p-value that is less than or
\* equal to another has a corrected p-value less than or equal to the
\* other's; every corrected p-value is at least the uncorrected one and at
\* most 1.
C16_CorrectedMonotone ==
    cmp.status = "returned" =>
        LET pv == cmp.results.p_values_uncorrected
            pc_ == cmp.results.p_values_corrected_fdr
        IN  /\ \A v, w \in Idx(pv.shape) :
                  RLe(pv.data[v], pv.data[w]) => RLe(pc_.data[v], pc_.data[w])
            /\ \A v \in Idx(pv.shape) :
                  /\ RLe(pv.data[v], pc_.data[v])
                  /\ RLe(pc_.data[v], ROne)

\* C16 witness: a correction has returned in which a corrected p-value lies
\* strictly between the uncorrected one and 1, and takes its value from a
\* later rank (it is below its own p * m / rank).
C16_Witness ==
    /\ cmp.status = "returned"
    /\ LET pv == cmp.results.p_values_uncorrected
           pc_ == cmp.results.p_values_corrected_fdr
       IN  \E v, w \in Idx(pv.shape) :
              /\ RLt(pv.data[v], pc_.data[v])
              /\ RLt(pc_.data[v], ROne)
              /\ RLt(pv.data[v], pv.data[w])
              /\ pc_.data[v] = pc_.data[w]

\* the Benjamini-Hochberg adjusted p-value of voxel v of the volume pvol, from
\* the values alone: the least p[q] * m / #{r : p[r] <= p[q]} over the voxels
\* q with p[v] <= p[q], capped at 1
BHAdjusted(pvol, v) ==
    LET m == Size(pvol.shape)
        rank(q) == Cardinality({r \in Idx(pvol.shape) : RLe(pvol.data[r], pvol.data[q])})
        cands == {RDiv(pvol.data[q], Rat(rank(q), m)) :
                     q \in {q \in Idx(pvol.shape) : RLe(pvol.data[v], pvol.data[q])}}
        least == CHOOSE x \in cands : \A y \in cands : RLe(x, y)
    IN  RMin(ROne, least)

\* C17: the result volumes have the shape of the p-value volume, and at every
\* 3D index v the corrected p-value and the mask are the ones that belong to
\* the uncorrected p-value stored at v.
C17_ReshapeKeepsVoxels ==
    cmp.status = "returned" =>
        /\ cmp.results.p_values_uncorrected = tt.p_values
        /\ cmp.results.p_values_corrected_fdr.shape = tt.p_values.shape
        /\ cmp.results.significant_mask_fdr.shape = tt.p_values.shape
        /\ \A v \in Idx(tt.p_values.shape) :
              /\ cmp.results.p_values_corrected_fdr.data[v] = BHAdjusted(tt.p_values, v)
              /\ cmp.results.significant_mask_fdr.data[v] <=>
                    RLe(BHAdjusted(tt.p_values, v), alpha)

\* C17 witness: a correction has returned on a volume whose p-values differ
\* between the indices <<0, 0, 1>> and <<0, 1, 0>>, and so do the corrected
\* ones and the mask.
C17_Witness ==
    /\ cmp.status = "returned"
    /\ tt.p_values.shape = <<1, 2, 2>>
    /\ cmp.results.p_values_corrected_fdr.data[<<0, 0, 1>>] #
          cmp.results.p_values_corrected_fdr.data[<<0, 1, 0>>]
    /\ cmp.results.significant_mask_fdr.data[<<0, 0, 1>>]
    /\ ~cmp.results.significant_mask_fdr.data[<<0, 1, 0>>]

\* C18: once compare_groups_voxelwise has returned, no step of the run
\* changes the five result arrays; when the run ends with success the mask
\* on disk is the conversion of the mask the summary counts.
C18_ResultsImmutable ==
    /\ [][cmp.status = "returned" => cmp' = cmp]_vars
    /\ [](exit_code = 0 =>
            /\ Len(written) = 5
            /\ written[4] = OutputVolume(cmp.results, "significant_mask_fdr"))

\* C18 witness: a run has ended with success on results with a significant
\* voxel and a voxel that is not significant but has a mean difference.
C18_Witness ==
    /\ exit_code = 0
    /\ Len(images) = 3
    /\ \E v, w \in Idx(VolShape) :
          /\ cmp.results.significant_mask_fdr.data[v]
          /\ ~cmp.results.significant_mask_fdr.data[w]
          /\ cmp.results.mean_diff.data[w] # RZero

(***************************************************************************)
(* process_batch_v2.py: HemilineageBatchProcessorV2.process_hemilineage,   *)
(* with update_status and save_summary.  A hemilineage name is a number    *)
(* 1..MaxHemi; 0 is a name that is not in the summary.                     *)
(***************************************************************************)
\* rows of the summary CSV
MaxHemi == 2

Hemilineages == 1 .. MaxHemi

\* lines 8-11: 0 not started, 1 completed, -1 error
StatusCodes == {0, 1, -1}

Tables == [Hemilineages -> [status_whole_neuron : StatusCodes, status_cbf : StatusCodes]]

\* lines 109-123: update_status on the table; a name that is not in the table
\* changes nothing
update_status(table, name, status_column, status) ==
    IF name \in DOMAIN table
    THEN [table EXCEPT ![name][status_column] = status]
    ELSE table

\* save_summary reporting a CSV it did not write
save_summaryBackupOnly(table, file, backup_files) ==
    { [saved |-> "written", csv |-> file, backups |-> Append(backup_files, table)],
      [saved |-> "backup failed", csv |-> file, backups |-> backup_files] }

\* lines 81-93: save_summary writes the backup from self.df, then the CSV;
\* an exception of either write is logged and swallowed. The outcomes: both
\* written; the backup fails; the CSV cannot be opened; the CSV write fails
\* after the file was truncated
save_summary(table, file, backup_files) ==
    { [saved |-> "written", csv |-> [intact |-> TRUE, table |-> table],
       backups |-> Append(backup_files, table)],
      [saved |-> "backup failed", csv |-> file, backups |-> backup_files],
      [saved |-> "csv not opened", csv |-> file, backups |-> Append(backup_files, table)],
      [saved |-> "csv truncated", csv |-> [intact |-> FALSE, table |-> table],
       backups |-> Append(backup_files, table)] }

NoHemiResults == [whole_neuron |-> "None", cbf |-> "None"]

\* a call of process_hemilineage on a loaded summary
HemiInit ==
    /\ StatsIdle
    /\ group_a_paths = <<>>
    /\ group_b_paths = <<>>
    /\ alpha = RZero
    /\ tt = NoTTest
    /\ cmp = NotCalled
    /\ images = <<>>
    /\ MainIdle
    /\ df \in Tables
    /\ csv = [intact |-> TRUE, table |-> df]
    /\ backups = <<>>
    /\ hemilineage \in Hemilineages \cup {0}
    /\ process_whole_neuron \in BOOLEAN
    /\ process_cbf \in BOOLEAN
    /\ hemi_processor = "none"
    /\ calls = <<>>
    /\ hemi_results = NoHemiResults
    /\ hpc = "start"
    /\ hexit = -1
    /\ saved = "none"
    /\ BatchIdle
    /\ ToolsIdle

NotHemi == <<statsVars, cmpVars, images, mainVars, hemilineage, process_whole_neuron,
             process_cbf, hexit, batchVars, toolVars>>

\* lines 142-146: nothing is requested
NothingRequested ==
    /\ hpc = "start"
    /\ ~(process_whole_neuron \/ process_cbf)
    /\ hpc' = "returned"
    /\ UNCHANGED <<df, csv, backups, saved, hemi_processor, calls, hemi_results, NotHemi>>

\* lines 199-212: the outer handler marks every requested type as an error,
\* saves the summary and returns
CriticalError ==
    /\ df' = LET t1 == IF process_whole_neuron
                       THEN update_status(df, hemilineage, "status_whole_neuron", -1)
                       ELSE df
             IN  IF process_cbf
                 THEN update_status(t1, hemilineage, "status_cbf", -1)
                 ELSE t1
    /\ \E o \in save_summary(df', csv, backups) :
          /\ csv' = o.csv
          /\ backups' = o.backups
          /\ saved' = o.saved
    /\ hemi_results' = [whole_neuron |-> IF process_whole_neuron THEN "False" ELSE "None",
                        cbf |-> IF process_cbf THEN "False" ELSE "None"]
    /\ hpc' = "returned"

\* line 152: hat_fafb(hemilineage) is constructed, or raises
CreateProcessor ==
    /\ hpc = "start"
    /\ process_whole_neuron \/ process_cbf
    /\ \/ /\ hemi_processor' = "constructed"
          /\ hpc' = "whole_neuron"
          /\ UNCHANGED <<df, csv, backups, saved, hemi_results>>
       \/ /\ hemi_processor' = "raised"
          /\ CriticalError
    /\ UNCHANGED <<calls, NotHemi>>

\* ProcessWholeNeuron without the inner try: the exception of register_meshes
\* reaches the outer handler
ProcessWholeNeuronNoInnerTry ==
    /\ hpc = "whole_neuron"
    /\ IF process_whole_neuron
       THEN \/ /\ calls' = Append(calls, [CBF |-> FALSE, outcome |-> "returned"])
               /\ df' = update_status(df, hemilineage, "status_whole_neuron", 1)
               /\ hemi_results' = [hemi_results EXCEPT !.whole_neuron = "True"]
               /\ hpc' = "cbf"
               /\ UNCHANGED <<csv, backups, saved>>
            \/ /\ calls' = Append(calls, [CBF |-> FALSE, outcome |-> "raised"])
               /\ CriticalError
       ELSE /\ hpc' = "cbf"
            /\ UNCHANGED <<df, csv, backups, saved, calls, hemi_results>>
    /\ UNCHANGED <<hemi_processor, NotHemi>>

\* lines 155-172: register_meshes(CBF=False) returns or raises; the status
\* and the result are set accordingly
ProcessWholeNeuron ==
    /\ hpc = "whole_neuron"
    /\ IF process_whole_neuron
       THEN \E outcome \in {"returned", "raised"} :
               /\ calls' = Append(calls, [CBF |-> FALSE, outcome |-> outcome])
               /\ df' = update_status(df, hemilineage, "status_whole_neuron",
                                      IF outcome = "returned" THEN 1 ELSE -1)
               /\ hemi_results' = [hemi_results EXCEPT !.whole_neuron =
                                      IF outcome = "returned" THEN "True" ELSE "False"]
       ELSE UNCHANGED <<df, calls, hemi_results>>
    /\ hpc' = "cbf"
    /\ UNCHANGED <<csv, backups, saved, hemi_processor, NotHemi>>

\* lines 175-192: register_meshes(CBF=True) returns or raises
ProcessCbf ==
    /\ hpc = "cbf"
    /\ IF process_cbf
       THEN \E outcome \in {"returned", "raised"} :
               /\ calls' = Append(calls, [CBF |-> TRUE, outcome |-> outcome])
               /\ df' = update_status(df, hemilineage, "status_cbf",
                                      IF outcome = "returned" THEN 1 ELSE -1)
               /\ hemi_results' = [hemi_results EXCEPT !.cbf =
                                      IF outcome = "returned" THEN "True" ELSE "False"]
       ELSE UNCHANGED <<df, calls, hemi_results>>
    /\ hpc' = "save"
    /\ UNCHANGED <<csv, backups, saved, hemi_processor, NotHemi>>

\* lines 194-197: the summary is saved and the results returned
SaveAndReturn ==
    /\ hpc = "save"
    /\ \E o \in save_summary(df, csv, backups) :
          /\ csv' = o.csv
          /\ backups' = o.backups
          /\ saved' = o.saved
    /\ hpc' = "returned"
    /\ UNCHANGED <<df, hemi_processor, calls, hemi_results, NotHemi>>

HemiNext ==
    \/ NothingRequested
    \/ CreateProcessor
    \/ ProcessWholeNeuron
    \/ ProcessCbf
    \/ SaveAndReturn

SpecHemi == HemiInit /\ [][HemiNext]_vars

(***************************************************************************)
(* process_single_v2.py: main.                                             *)
(***************************************************************************)
\* process_batch_v2.py lines 125-126: the parameters of process_hemilineage
ProcessHemilineageParams ==
    {"hemilineage", "process_whole_neuron", "process_cbf", "cbf_threshold", "template",
     "source", "update"}

\* process_single_v2.py lines 76-84: the keywords of the call
SingleCallKeywords ==
    {"hemilineage", "process_whole_neuron", "process_cbf", "downsampling_factor",
     "template", "source", "update"}

\* the arguments parsed (line 60) and the summary CSV on disk
SingleInit ==
    /\ StatsIdle
    /\ group_a_paths = <<>>
    /\ group_b_paths = <<>>
    /\ alpha = RZero
    /\ tt = NoTTest
    /\ cmp = NotCalled
    /\ images = <<>>
    /\ MainIdle
    /\ df = <<>>
    /\ csv \in [intact : BOOLEAN, table : Tables]
    /\ backups = <<>>
    /\ hemilineage \in Hemilineages \cup {0}
    /\ process_whole_neuron \in BOOLEAN
    /\ process_cbf \in BOOLEAN
    /\ hemi_processor = "none"
    /\ calls = <<>>
    /\ hemi_results = NoHemiResults
    /\ hpc = "validate"
    /\ hexit = -1
    /\ saved = "none"
    /\ BatchIdle
    /\ ToolsIdle

NotSingle == <<statsVars, cmpVars, images, mainVars, csv, backups, hemilineage,
               process_whole_neuron, process_cbf, hemi_processor, calls, hemi_results,
               saved, batchVars, toolVars>>

\* lines 62-65: at least one processing type must be selected
ValidateArgs ==
    /\ hpc = "validate"
    /\ IF process_whole_neuron \/ process_cbf
       THEN hpc' = "load" /\ hexit' = hexit
       ELSE hpc' = "exited" /\ hexit' = 1
    /\ UNCHANGED <<df, NotSingle>>

\* line 68: the processor is created; load_summary (process_batch_v2.py lines
\* 59-79) reads the CSV and exits with status 1 when it cannot
LoadSummary ==
    /\ hpc = "load"
    /\ IF csv.intact
       THEN /\ df' = csv.table
            /\ hpc' = "check"
            /\ hexit' = hexit
       ELSE /\ df' = df
            /\ hpc' = "exited"
            /\ hexit' = 1
    /\ UNCHANGED NotSingle

\* lines 70-73: the hemilineage must be in the summary
CheckHemilineage ==
    /\ hpc = "check"
    /\ IF hemilineage \in DOMAIN df
       THEN hpc' = "call" /\ hexit' = hexit
       ELSE hpc' = "exited" /\ hexit' = 1
    /\ UNCHANGED <<df, NotSingle>>

\* lines 75-84: the call of process_hemilineage. A keyword that is not a
\* parameter of the method raises TypeError before its body runs; nothing
\* catches it, and the interpreter exits with status 1
CallProcessHemilineage ==
    /\ hpc = "call"
    /\ IF SingleCallKeywords \subseteq ProcessHemilineageParams
       THEN hpc' = "start" /\ hexit' = hexit
       ELSE hpc' = "exited" /\ hexit' = 1
    /\ UNCHANGED <<df, NotSingle>>

SingleNext ==
    \/ ValidateArgs
    \/ LoadSummary
    \/ CheckHemilineage
    \/ CallProcessHemilineage

SpecSingle == SingleInit /\ [][SingleNext]_vars

(***************************************************************************)
(* Claims about the hemilineage processor.                                 *)
(***************************************************************************)
\* the status column of each processing type
Requested(col) ==
    IF col = "status_whole_neuron" THEN process_whole_neuron ELSE process_cbf

\* C19 as claimed: a run of process_single_v2 for a hemilineage of the summary
\* with at least one of --whole_neuron and --cbf ends with each requested
\* status column of that hemilineage 1 or -1 in the CSV file.
C19_SingleRunRecordsStatus ==
    (hpc = "exited" /\ csv.intact /\ hemilineage \in Hemilineages
        /\ (process_whole_neuron \/ process_cbf)) =>
        \A col \in {"status_whole_neuron", "status_cbf"} :
            Requested(col) => csv.table[hemilineage][col] \in {1, -1}

\* the call of register_meshes for a column has been made with this outcome
Called(col, outcome) ==
    \E k \in 1 .. Len(calls) :
        /\ calls[k].CBF = (col = "status_cbf")
        /\ calls[k].outcome = outcome

\* C20: after process_hemilineage returns for a hemilineage of the summary,
\* the status of each requested type is 1 exactly when its register_meshes
\* call returned and -1 exactly when it raised or hat_fafb could not be
\* constructed; with hat_fafb constructed the CBF call is made whatever the
\* whole-neuron call did; no step changes the status of a type that was not
\* requested or a status of another hemilineage.
C20_StatusMatchesOutcome ==
    /\ []((hpc = "returned" /\ hemilineage \in Hemilineages) =>
            /\ \A col \in {"status_whole_neuron", "status_cbf"} :
                  Requested(col) =>
                      /\ df[hemilineage][col] = 1 <=> Called(col, "returned")
                      /\ df[hemilineage][col] = -1 <=>
                            (Called(col, "raised") \/ hemi_processor = "raised")
                      /\ df[hemilineage][col] \in {1, -1}
            /\ (hemi_processor = "constructed" /\ process_cbf) =>
                  (Called("status_cbf", "returned") \/ Called("status_cbf", "raised")))
    /\ [][\A h \in Hemilineages :
            \A col \in {"status_whole_neuron", "status_cbf"} :
                (h # hemilineage \/ ~Requested(col)) => df'[h][col] = df[h][col]]_vars

\* C20 witness: the whole-neuron call raised, the CBF call returned, and
\* process_hemilineage has returned with the statuses -1 and 1.
C20_Witness ==
    /\ hpc = "returned"
    /\ hemilineage = 1
    /\ calls = <<[CBF |-> FALSE, outcome |-> "raised"], [CBF |-> TRUE, outcome |-> "returned"]>>
    /\ df[1] = [status_whole_neuron |-> -1, status_cbf |-> 1]

(***************************************************************************)
(* Claims about the order of the paths.                                    *)
(***************************************************************************)
\* the list paths in the order perm
Permuted(paths, perm) == [j \in 1 .. Len(paths) |-> paths[perm[j]]]

\* C26 as claimed: the outcome of calculate_online_stats_3d is the same for
\* every permutation of its list of paths: when the call returns, the call on
\* each permutation returns the same mean, variance and count.
C26_OrderIndependent ==
    pc = "returned" =>
        \A perm \in PermsOf(Len(array_paths)) :
            LET other == calculate_online_stats_3d(Permuted(array_paths, perm))
            IN  /\ ~other.raised
                /\ other.mean = stats.mean
                /\ other.variance = stats.variance
                /\ other.count = stats.count

(***************************************************************************)
(* process_batch_v2.py: HemilineageBatchProcessorV2.process_batch.  The    *)
(* calls of process_hemilineage it makes are the steps modelled above.     *)
(***************************************************************************)
\* the values of the column 'batches'
BatchNumbers == {0, 1}

RECURSIVE RowsFrom(_, _, _, _)
\* the rows of the batch from the row of hemilineage h on, in the order of the table
RowsFrom(table, column, number, h) ==
    IF h > MaxHemi THEN <<>>
    ELSE (IF column[h] = number
          THEN <<[ito_lee_hemilineage |-> h,
                  status_whole_neuron |-> table[h].status_whole_neuron,
                  status_cbf |-> table[h].status_cbf]>>
          ELSE <<>>) \o RowsFrom(table, column, number, h + 1)

\* lines 95-107: a copy of the rows whose 'batches' is the batch number
get_batch_hemilineages(table, column, number) == RowsFrom(table, column, number, 1)

\* a processing type processed whatever its status
ProcessTypeIgnoresSkip(requested, skip, status) == requested

\* lines 252-253 and 256-265: a requested type is processed unless
\* skip_completed is set and the status of the row is 1
ProcessType(requested, skip, status) ==
    /\ requested /\ (~skip \/ status # 1)
    /\ ~(skip /\ requested /\ status = 1)

\* lines 256-259, 262-264: the type is counted as skipped
SkipType(requested, skip, status) == skip /\ requested /\ status = 1

\* a result counted only when it is a success
CountSuccessOnly(counts, result) ==
    IF result = "True" THEN [counts EXCEPT !.successful = @ + 1] ELSE counts

\* lines 282-285, 287-290: the result of one type is counted
Count(counts, result) ==
    IF result = "True" THEN [counts EXCEPT !.successful = @ + 1]
    ELSE IF result = "False" THEN [counts EXCEPT !.failed = @ + 1]
    ELSE counts

\* process_batch is called on a loaded summary
BatchInit ==
    /\ StatsIdle
    /\ group_a_paths = <<>>
    /\ group_b_paths = <<>>
    /\ alpha = RZero
    /\ tt = NoTTest
    /\ cmp = NotCalled
    /\ images = <<>>
    /\ MainIdle
    /\ df \in Tables
    /\ csv = [intact |-> TRUE, table |-> df]
    /\ backups = <<>>
    /\ hemilineage = 0
    /\ process_whole_neuron = FALSE
    /\ process_cbf = FALSE
    /\ hemi_processor = "none"
    /\ calls = <<>>
    /\ hemi_results = NoHemiResults
    /\ hpc = "idle"
    /\ hexit = -1
    /\ saved = "none"
    /\ batches \in [Hemilineages -> BatchNumbers]
    /\ batch_number = 0
    /\ batch_process_whole_neuron \in BOOLEAN
    /\ batch_process_cbf \in BOOLEAN
    /\ skip_completed \in BOOLEAN
    /\ batch_df = <<>>
    /\ row = 0
    /\ batch_results = [total |-> 0, whole_neuron |-> NoCounts, cbf |-> NoCounts]
    /\ processed = <<>>
    /\ bpc = "start"
    /\ ToolsIdle

NotBatch == <<statsVars, cmpVars, images, mainVars, toolVars, hexit, batches, batch_number,
              batch_process_whole_neuron, batch_process_cbf, skip_completed>>

\* lines 233-244: the rows of the batch are copied; an empty batch returns
GetBatch ==
    /\ bpc = "start"
    /\ batch_df' = get_batch_hemilineages(df, batches, batch_number)
    /\ IF Len(batch_df') = 0
       THEN /\ bpc' = "returned"
            /\ UNCHANGED <<row, batch_results>>
       ELSE /\ batch_results' = [total |-> Len(batch_df'), whole_neuron |-> NoCounts,
                                 cbf |-> NoCounts]
            /\ row' = 1
            /\ bpc' = "loop"
    /\ UNCHANGED <<df, csv, backups, saved, hemilineage, process_whole_neuron, process_cbf,
                   hemi_processor, calls, hemi_results, hpc, processed, NotBatch>>

\* lines 246-279: the next row; what is completed is skipped, and
\* process_hemilineage is called when something is left to process
NextRow ==
    /\ bpc = "loop"
    /\ row <= Len(batch_df)
    /\ LET r == batch_df[row]
           process_wn == ProcessType(batch_process_whole_neuron, skip_completed,
                                     r.status_whole_neuron)
           process_cb == ProcessType(batch_process_cbf, skip_completed, r.status_cbf)
           skip_wn == SkipType(batch_process_whole_neuron, skip_completed,
                               r.status_whole_neuron)
           skip_cb == SkipType(batch_process_cbf, skip_completed, r.status_cbf)
       IN  /\ batch_results' =
                 [batch_results EXCEPT
                     !.whole_neuron.skipped = @ + (IF skip_wn THEN 1 ELSE 0),
                     !.cbf.skipped = @ + (IF skip_cb THEN 1 ELSE 0)]
           /\ IF ~(process_wn \/ process_cb)
              THEN /\ row' = row + 1
                   /\ UNCHANGED <<hemilineage, process_whole_neuron, process_cbf,
                                  hemi_processor, calls, hemi_results, hpc, bpc>>
              ELSE /\ hemilineage' = r.ito_lee_hemilineage
                   /\ process_whole_neuron' = process_wn
                   /\ process_cbf' = process_cb
                   /\ hemi_processor' = "none"
                   /\ calls' = <<>>
                   /\ hemi_results' = NoHemiResults
                   /\ hpc' = "start"
                   /\ bpc' = "call"
                   /\ row' = row
    /\ UNCHANGED <<df, csv, backups, saved, batch_df, processed, NotBatch>>

\* CollectResults leaving the loop at the first failure
CollectResultsStopsOnFailure ==
    /\ bpc = "call"
    /\ hpc = "returned"
    /\ batch_results' = [batch_results EXCEPT
                            !.whole_neuron = Count(@, hemi_results.whole_neuron),
                            !.cbf = Count(@, hemi_results.cbf)]
    /\ processed' = Append(processed,
                        [hemilineage |-> hemilineage,
                         process_whole_neuron |-> process_whole_neuron,
                         process_cbf |-> process_cbf,
                         calls |-> calls,
                         hemi_results |-> hemi_results])
    /\ row' = row + 1
    /\ bpc' = IF "False" \in {hemi_results.whole_neuron, hemi_results.cbf}
              THEN "returned" ELSE "loop"
    /\ hpc' = "idle"
    /\ UNCHANGED <<df, csv, backups, saved, hemilineage, process_whole_neuron, process_cbf,
                   hemi_processor, calls, hemi_results, batch_df, NotBatch>>

\* lines 281-290: process_hemilineage has returned; its results are counted
CollectResults ==
    /\ bpc = "call"
    /\ hpc = "returned"
    /\ batch_results' = [batch_results EXCEPT
                            !.whole_neuron = Count(@, hemi_results.whole_neuron),
                            !.cbf = Count(@, hemi_results.cbf)]
    /\ processed' = Append(processed,
                        [hemilineage |-> hemilineage,
                         process_whole_neuron |-> process_whole_neuron,
                         process_cbf |-> process_cbf,
                         calls |-> calls,
                         hemi_results |-> hemi_results])
    /\ row' = row + 1
    /\ bpc' = "loop"
    /\ hpc' = "idle"
    /\ UNCHANGED <<df, csv, backups, saved, hemilineage, process_whole_neuron, process_cbf,
                   hemi_processor, calls, hemi_results, batch_df, NotBatch>>

\* lines 292-304: after the last row the summary is logged and returned
ReturnResults ==
    /\ bpc = "loop"
    /\ row > Len(batch_df)
    /\ bpc' = "returned"
    /\ UNCHANGED <<df, csv, backups, saved, hemilineage, process_whole_neuron, process_cbf,
                   hemi_processor, calls, hemi_results, hpc, batch_df, row, batch_results,
                   processed, NotBatch>>

BatchNext ==
    \/ GetBatch
    \/ NextRow
    \/ CreateProcessor
    \/ ProcessWholeNeuron
    \/ ProcessCbf
    \/ SaveAndReturn
    \/ CollectResults
    \/ ReturnResults

\* the run is not interrupted: a step that can be taken is taken
SpecBatch == BatchInit /\ [][BatchNext]_vars /\ WF_vars(BatchNext)

(***************************************************************************)
(* Claims about process_batch.                                             *)
(***************************************************************************)
StatusColumns == {"status_whole_neuron", "status_cbf"}

\* the processing type of a status column is requested from process_batch
BatchRequested(col) ==
    IF col = "status_whole_neuron" THEN batch_process_whole_neuron ELSE batch_process_cbf

\* the type of the column is completed in row k of the batch as it was copied
\* when the batch started, and skip_completed asks to skip it
Completed(k, col) == skip_completed /\ batch_df[k][col] = 1

\* something of row k is left to process
ToProcess(k) == \E col \in StatusColumns : BatchRequested(col) /\ ~Completed(k, col)

\* the flag of the type of a column in a call of process_hemilineage
FlagOf(call, col) ==
    IF col = "status_whole_neuron" THEN call.process_whole_neuron ELSE call.process_cbf

\* the calls of process_hemilineage made for hemilineage h
CallsFor(h) == {j \in 1 .. Len(processed) : processed[j].hemilineage = h}

\* a call of process_hemilineage has failed and a later call was made
FailedThenProcessed ==
    \E i, j \in 1 .. Len(processed) :
        /\ i < j
        /\ "False" \in {processed[i].hemi_results.whole_neuron,
                        processed[i].hemi_results.cbf}

\* C21: process_batch returns its summary, and when it returns every row of
\* the batch with something left to process has been given to
\* process_hemilineage exactly once, in the order of the batch, whatever
\* failed before it.
C21_BatchContinues ==
    /\ <>(bpc = "returned")
    /\ [](bpc = "returned" =>
            /\ batch_results.total = Len(batch_df)
            /\ \A k \in 1 .. Len(batch_df) :
                  Cardinality(CallsFor(batch_df[k].ito_lee_hemilineage)) =
                      IF ToProcess(k) THEN 1 ELSE 0
            /\ \A i, j \in 1 .. Len(processed) :
                  i < j => processed[i].hemilineage < processed[j].hemilineage)

\* C21 witness: the batch has returned after a call that failed for both types
\* and a later call.
C21_Witness ==
    /\ bpc = "returned"
    /\ Len(processed) = 2
    /\ processed[1].hemi_results = [whole_neuron |-> "False", cbf |-> "False"]
    /\ FailedThenProcessed

\* the call of process_hemilineage in progress
InCall == bpc = "call"

\* C22: with skip_completed, a type whose status is 1 in a row when the batch
\* starts is never requested from process_hemilineage for that hemilineage,
\* no call of register_meshes is made for it, its status stays 1, and when the
\* batch returns it has been counted once as skipped; without skip_completed
\* every requested type of every row has been requested from
\* process_hemilineage when the batch returns.
C22_SkipCompleted ==
    /\ \A k \in 1 .. Len(batch_df) : \A col \in StatusColumns :
          LET h == batch_df[k].ito_lee_hemilineage
          IN  (BatchRequested(col) /\ Completed(k, col)) =>
                 /\ df[h][col] = 1
                 /\ \A j \in CallsFor(h) :
                       /\ ~FlagOf(processed[j], col)
                       /\ \A c \in 1 .. Len(processed[j].calls) :
                             processed[j].calls[c].CBF # (col = "status_cbf")
                 /\ (InCall /\ hemilineage = h) =>
                       /\ ~Requested(col)
                       /\ \A c \in 1 .. Len(calls) : calls[c].CBF # (col = "status_cbf")
    /\ bpc = "returned" =>
          /\ \A col \in StatusColumns :
                BatchRequested(col) =>
                    batch_results[IF col = "status_cbf" THEN "cbf" ELSE "whole_neuron"].skipped
                        = Cardinality({k \in 1 .. Len(batch_df) : Completed(k, col)})
          /\ ~skip_completed =>
                \A k \in 1 .. Len(batch_df) : \A col \in StatusColumns :
                    BatchRequested(col) =>
                        \E j \in CallsFor(batch_df[k].ito_lee_hemilineage) :
                            FlagOf(processed[j], col)

\* C22 witness: with skip_completed and both types requested, a row whose
\* whole-neuron status was 1 has had its CBF processed only.
C22_Witness ==
    /\ bpc = "returned"
    /\ skip_completed
    /\ batch_process_whole_neuron
    /\ batch_process_cbf
    /\ Len(batch_df) = 2
    /\ batch_df[1].status_whole_neuron = 1
    /\ batch_df[1].status_cbf = 0
    /\ Len(processed) >= 1
    /\ processed[1].hemilineage = batch_df[1].ito_lee_hemilineage
    /\ processed[1].calls = <<[CBF |-> TRUE, outcome |-> "raised"]>>
    /\ batch_results.whole_neuron.skipped >= 1

\* C27: when process_hemilineage returns after a save_summary that wrote the
\* CSV, the CSV holds the in-memory table; and at every moment after such a
\* save (or before the first save), the CSV is whole and differs from the
\* in-memory table at most in the row of the hemilineage being processed: the
\* statuses of the hemilineages processed so far are on disk.
C27_CsvFollowsTable ==
    /\ (hpc = "returned" /\ saved = "written") => csv = [intact |-> TRUE, table |-> df]
    /\ saved \in {"none", "written"} =>
          /\ csv.intact
          /\ \A h \in Hemilineages :
                (~InCall \/ h # hemilineage) => csv.table[h] = df[h]

\* C27 witness: the first hemilineage was processed and saved, and the second
\* one is being processed with a status not yet on disk.
C27_Witness ==
    /\ InCall
    /\ hpc = "save"
    /\ saved = "written"
    /\ Len(processed) = 1
    /\ processed[1].hemi_results.whole_neuron = "False"
    /\ csv.table[processed[1].hemilineage].status_whole_neuron = -1
    /\ csv.table[hemilineage] # df[hemilineage]

\* the counts of a processing type
CountsOf(col) == batch_results[IF col = "status_cbf" THEN "cbf" ELSE "whole_neuron"]

\* C28: when process_batch returns for a non-empty batch, the counts of a
\* requested type add up to the number of rows of the batch, and the counts of
\* a type that was not requested are 0.
C28_CountsAddUp ==
    (bpc = "returned" /\ Len(batch_df) > 0) =>
        \A col \in StatusColumns :
            IF BatchRequested(col)
            THEN CountsOf(col).successful + CountsOf(col).failed + CountsOf(col).skipped
                    = batch_results.total
            ELSE CountsOf(col) = NoCounts

\* C28 witness: a batch of two rows has returned with one type skipped once and
\* failed once, the other type not requested.
C28_Witness ==
    /\ bpc = "returned"
    /\ batch_results.total = 2
    /\ batch_process_cbf
    /\ ~batch_process_whole_neuron
    /\ batch_results.cbf = [successful |-> 0, failed |-> 1, skipped |-> 1]
    /\ \E j \in 1 .. Len(processed) : processed[j].calls = <<>>

\* C29 as claimed: each call of save_summary that writes a backup file writes
\* into it the contents the summary CSV had on disk before the call.
C29_BackupHoldsOldCsv ==
    [][backups' # backups =>
          /\ Len(backups') = Len(backups) + 1
          /\ backups'[Len(backups')] = csv.table]_vars

(***************************************************************************)
(* reset_status_v2.py: main, with the four reset operations and            *)
(* save_summary.                                                           *)
(***************************************************************************)
\* the value None of an option that is not given, and an option given as v
None == {}

Some(v) == {v}

ValueOf(option) == CHOOSE v \in option : TRUE

\* the new statuses given on the command line: not started, completed
NewStatuses == {0, 1}

\* lines 180-199: a status option is absent or one of its choices
Options == {None} \cup {Some(s) : s \in NewStatuses}

\* lines 176-199: the reset options parsed; hemilineage 0 is a name that is
\* not in the summary
ResetArgs ==
    [all_wn_to : Options, all_cbf_to : Options,
     batch : {None} \cup {Some(b) : b \in BatchNumbers},
     wn_to : Options, cbf_to : Options,
     hemilineage : {None} \cup {Some(h) : h \in {0} \cup Hemilineages},
     errors_to : Options]

\* the two status columns of one row set to the new values that are given
ResetRow(r, new_wn_status, new_cbf_status) ==
    [status_whole_neuron |-> IF new_wn_status # None THEN ValueOf(new_wn_status)
                             ELSE r.status_whole_neuron,
     status_cbf |-> IF new_cbf_status # None THEN ValueOf(new_cbf_status)
                    ELSE r.status_cbf]

\* lines 71-89
reset_all_status(table, new_wn_status, new_cbf_status) ==
    [h \in DOMAIN table |-> ResetRow(table[h], new_wn_status, new_cbf_status)]

\* lines 92-117
reset_batch_status(table, column, number, new_wn_status, new_cbf_status) ==
    [h \in DOMAIN table |->
        IF column[h] = number THEN ResetRow(table[h], new_wn_status, new_cbf_status)
        ELSE table[h]]

\* lines 120-138
reset_hemilineage_status(table, name, new_wn_status, new_cbf_status) ==
    [h \in DOMAIN table |->
        IF h = name THEN ResetRow(table[h], new_wn_status, new_cbf_status) ELSE table[h]]

\* lines 141-169: every status -1 becomes the new status
reset_error_status(table, new_status) ==
    [h \in DOMAIN table |->
        ResetRow(table[h],
                 IF table[h].status_whole_neuron = -1 THEN Some(new_status) ELSE None,
                 IF table[h].status_cbf = -1 THEN Some(new_status) ELSE None)]

\* lines 206-216: one reset operation is given, and --batch or --hemilineage
\* come with a new status
ValidArgs(a) ==
    /\ \E o \in {a.all_wn_to, a.all_cbf_to, a.batch, a.hemilineage, a.errors_to} : o # None
    /\ (a.batch # None \/ a.hemilineage # None) => (a.wn_to # None \/ a.cbf_to # None)

\* lines 225-233: the first reset operation that is given
ApplyOperation(a, table, column) ==
    IF a.all_wn_to # None \/ a.all_cbf_to # None
    THEN reset_all_status(table, a.all_wn_to, a.all_cbf_to)
    ELSE IF a.errors_to # None THEN reset_error_status(table, ValueOf(a.errors_to))
    ELSE IF a.batch # None
    THEN reset_batch_status(table, column, ValueOf(a.batch), a.wn_to, a.cbf_to)
    ELSE IF a.hemilineage # None
    THEN reset_hemilineage_status(table, ValueOf(a.hemilineage), a.wn_to, a.cbf_to)
    ELSE table

\* lines 53-68: save_summary of the reset utility re-reads the CSV for the
\* backup, then writes the CSV; it returns False when a write fails
reset_save_summary(table, file, backup_files) ==
    { [saved |-> "written", csv |-> [intact |-> TRUE, table |-> table],
       backups |-> Append(backup_files, file.table)],
      [saved |-> "backup failed", csv |-> file, backups |-> backup_files],
      [saved |-> "csv not opened", csv |-> file,
       backups |-> Append(backup_files, file.table)],
      [saved |-> "csv truncated", csv |-> [intact |-> FALSE, table |-> table],
       backups |-> Append(backup_files, file.table)] }

\* the summary CSV on disk when the utility starts
ResetInit ==
    /\ StatsIdle
    /\ group_a_paths = <<>>
    /\ group_b_paths = <<>>
    /\ alpha = RZero
    /\ tt = NoTTest
    /\ cmp = NotCalled
    /\ images = <<>>
    /\ MainIdle
    /\ df = <<>>
    /\ csv \in [intact : {TRUE}, table : Tables] \cup {[intact |-> FALSE, table |-> <<>>]}
    /\ backups = <<>>
    /\ hemilineage = 0
    /\ process_whole_neuron = FALSE
    /\ process_cbf = FALSE
    /\ hemi_processor = "none"
    /\ calls = <<>>
    /\ hemi_results = NoHemiResults
    /\ hpc = "idle"
    /\ hexit = -1
    /\ saved = "none"
    \* the hemilineages are dealt to the batches in turn
    /\ batches = [h \in Hemilineages |-> h % 2]
    /\ batch_number = 0
    /\ batch_process_whole_neuron = FALSE
    /\ batch_process_cbf = FALSE
    /\ skip_completed = FALSE
    /\ batch_df = <<>>
    /\ row = 0
    /\ batch_results = [total |-> 0, whole_neuron |-> NoCounts, cbf |-> NoCounts]
    /\ processed = <<>>
    /\ bpc = "idle"
    /\ dry_run \in BOOLEAN
    /\ rpc = "start"
    /\ rexit = -1
    /\ RegisterIdle
    /\ UnionIdle
    /\ MappingIdle

NotReset == <<statsVars, cmpVars, images, mainVars, hemilineage, process_whole_neuron,
              process_cbf, hemi_processor, calls, hemi_results, hpc, hexit, batchVars,
              dry_run, registerVars, unionVars, mappingVars>>

\* lines 204-233: the arguments are validated, the summary is loaded and the
\* reset operation is applied to the table in memory
ApplyReset ==
    /\ rpc = "start"
    /\ \E a \in ResetArgs :
          IF ValidArgs(a) /\ csv.intact
          THEN /\ df' = ApplyOperation(a, csv.table, batches)
               /\ rpc' = "save"
               /\ rexit' = rexit
          ELSE /\ df' = df
               /\ rpc' = "exited"
               /\ rexit' = 1
    /\ UNCHANGED <<csv, backups, saved, NotReset>>

\* lines 235-241 saving whatever --dry_run says
SaveChangesIgnoresDryRun ==
    /\ rpc = "save"
    /\ \E o \in reset_save_summary(df, csv, backups) :
          /\ csv' = o.csv
          /\ backups' = o.backups
          /\ saved' = o.saved
          /\ rexit' = IF o.saved = "written" THEN 0 ELSE 1
    /\ rpc' = "exited"
    /\ UNCHANGED <<df, NotReset>>

\* lines 235-241: the table is saved unless --dry_run is given
SaveChanges ==
    /\ rpc = "save"
    /\ IF ~dry_run
       THEN \E o \in reset_save_summary(df, csv, backups) :
               /\ csv' = o.csv
               /\ backups' = o.backups
               /\ saved' = o.saved
               /\ rexit' = IF o.saved = "written" THEN 0 ELSE 1
       ELSE /\ rexit' = 0
            /\ UNCHANGED <<csv, backups, saved>>
    /\ rpc' = "exited"
    /\ UNCHANGED <<df, NotReset>>

ResetNext ==
    \/ ApplyReset
    \/ SaveChanges

SpecReset == ResetInit /\ [][ResetNext]_vars

\* C23: in a run with --dry_run no step changes the summary CSV file, and no
\* backup file exists at any moment.
C23_DryRunWritesNothing ==
    /\ [](dry_run => backups = <<>>)
    /\ [][dry_run => csv' = csv]_vars

\* C23 witness: a run with --dry_run has ended after a reset operation that
\* changed the table in memory.
C23_Witness ==
    /\ dry_run
    /\ rpc = "exited"
    /\ rexit = 0
    /\ df # csv.table

(***************************************************************************)
(* HAT_FAFB.py: hat_fafb.register_meshes on one instance, with the pickle  *)
(* files of its folder.  A set of meshes is the record of how it was made. *)
(***************************************************************************)
processorVars ==
    <<df, csv, backups, hemilineage, process_whole_neuron, process_cbf, hemi_processor,
      calls, hemi_results, hpc, hexit, saved>>

ProcessorIdle ==
    /\ df = <<>>
    /\ csv = [intact |-> FALSE, table |-> <<>>]
    /\ backups = <<>>
    /\ hemilineage = 0
    /\ process_whole_neuron = FALSE
    /\ process_cbf = FALSE
    /\ hemi_processor = "none"
    /\ calls = <<>>
    /\ hemi_results = NoHemiResults
    /\ hpc = "idle"
    /\ hexit = -1
    /\ saved = "none"

\* the target templates and the CBF thresholds of the calls
Templates == {"JRC2018U", "JRC2018F"}

Thresholds == {"0.1", "0.2"}

\* lines 131-150: the meshes of the neurons of the hemilineage
WholeMeshes == [CBF |-> FALSE, threshold |-> "none"]

\* line 159: navis.cell_body_fiber(neuron_meshes, threshold=threshold)
cell_body_fiber(threshold) == [CBF |-> TRUE, threshold |-> threshold]

\* line 211: navis.xform_brain(neuron_meshes, source=source, target=template)
xform_brain(neuron_meshes, template) == [neurons |-> neuron_meshes, template |-> template]

\* lines 220-222: the file the registered meshes are cached in
RegisteredFile(CBF) == IF CBF THEN "CBF_registered_meshes" ELSE "registered_meshes"

\* lines 152-164: _mesh_CBF loads the cached CBF meshes unless update is set
mesh_CBF(files, threshold, update) ==
    IF files.CBF_meshes # None /\ ~update
    THEN ValueOf(files.CBF_meshes)
    ELSE cell_body_fiber(threshold)

\* a new hat_fafb instance on an empty folder
RegisterInit ==
    /\ StatsIdle
    /\ group_a_paths = <<>>
    /\ group_b_paths = <<>>
    /\ alpha = RZero
    /\ tt = NoTTest
    /\ cmp = NotCalled
    /\ images = <<>>
    /\ MainIdle
    /\ ProcessorIdle
    /\ BatchIdle
    /\ ResetIdle
    /\ pkl_files = [meshes |-> None, CBF_meshes |-> None, registered_meshes |-> None,
                    CBF_registered_meshes |-> None]
    /\ templates = <<>>
    /\ request = [CBF |-> FALSE, CBF_threshold |-> "0.2", update |-> FALSE,
                  template |-> "JRC2018U"]
    /\ registered_meshes = [status |-> "none", file_path |-> "none",
                            meshes |-> xform_brain(WholeMeshes, "none")]
    /\ UnionIdle
    /\ MappingIdle

NotRegister == <<statsVars, cmpVars, images, mainVars, processorVars, batchVars, resetVars,
                 unionVars, mappingVars>>

\* lines 218-225 with lines 191-216: one call of register_meshes.  The cached
\* file is returned when it exists and update is not set; otherwise the meshes
\* are fetched (lines 205-210), transformed (line 211) and saved (line 212).
\* Fetching and transforming may raise.
RegisterMeshes ==
    \E CBF \in BOOLEAN, CBF_threshold \in Thresholds, update \in BOOLEAN,
       template \in Templates :
        LET file_path == RegisteredFile(CBF)
            neuron_meshes == IF CBF THEN mesh_CBF(pkl_files, CBF_threshold, update)
                             ELSE WholeMeshes
            fetched == IF CBF
                       THEN [pkl_files EXCEPT !.meshes = Some(WholeMeshes),
                                              !.CBF_meshes = Some(neuron_meshes)]
                       ELSE [pkl_files EXCEPT !.meshes = Some(WholeMeshes)]
        IN  /\ request' = [CBF |-> CBF, CBF_threshold |-> CBF_threshold,
                           update |-> update, template |-> template]
            /\ templates' = IF \E k \in 1 .. Len(templates) : templates[k] = template
                            THEN templates ELSE Append(templates, template)
            /\ IF pkl_files[file_path] # None /\ ~update
               THEN /\ registered_meshes' = [status |-> "returned", file_path |-> file_path,
                                             meshes |-> ValueOf(pkl_files[file_path])]
                    /\ pkl_files' = pkl_files
               ELSE \/ /\ registered_meshes' =
                             [status |-> "returned", file_path |-> file_path,
                              meshes |-> xform_brain(neuron_meshes, template)]
                       /\ pkl_files' = [fetched EXCEPT ![file_path] =
                                           Some(xform_brain(neuron_meshes, template))]
                    \/ /\ registered_meshes' = [registered_meshes EXCEPT !.status = "raised"]
                       /\ pkl_files' \in {pkl_files, fetched}
            /\ UNCHANGED NotRegister

RegisterNext == RegisterMeshes

SpecRegister == RegisterInit /\ [][RegisterNext]_vars

\* C24 as claimed: the meshes a call of register_meshes returns, and the ones
\* in the cache file after it, are the meshes of the requested kind (whole
\* neurons, or cell body fibers at the requested threshold) registered to the
\* requested template.
C24_ResultMatchesRequest ==
    registered_meshes.status = "returned" =>
        LET wanted == xform_brain(IF request.CBF THEN cell_body_fiber(request.CBF_threshold)
                                  ELSE WholeMeshes,
                                  request.template)
        IN  /\ registered_meshes.meshes = wanted
            /\ pkl_files[RegisteredFile(request.CBF)] = Some(wanted)

(***************************************************************************)
(* HAT_union.py.  An image is one integer per voxel.                       *)
(***************************************************************************)
\* the voxels of the images
UnionVoxels == {1, 2}

UnionImages == [UnionVoxels -> 0 .. MaxVal]

\* line 32: HAT_union_image + CBF_mesh, elementwise
AddImages(x, y) == [v \in UnionVoxels |-> x[v] + y[v]]

\* the table is read (line 16); each hemilineage has a CBF image or none
UnionInit ==
    /\ StatsIdle
    /\ group_a_paths = <<>>
    /\ group_b_paths = <<>>
    /\ alpha = RZero
    /\ tt = NoTTest
    /\ cmp = NotCalled
    /\ images = <<>>
    /\ MainIdle
    /\ ProcessorIdle
    /\ BatchIdle
    /\ ResetIdle
    /\ RegisterIdle
    /\ HAT_files \in [Hemilineages -> {None} \cup {Some(i) : i \in UnionImages}]
    /\ HAT_union_image = None
    /\ hemi_index = 1
    /\ combined = None
    /\ upc = "loop"
    /\ MappingIdle

NotUnion == <<statsVars, cmpVars, images, mainVars, processorVars, batchVars, resetVars,
              registerVars, HAT_files, mappingVars>>

\* lines 18-32: one pass of the loop.  A missing file is skipped (lines
\* 21-23); the image read becomes the union when there is none yet (lines
\* 28-29), and is then added to the union (line 32).  nrrd.read may raise.
UnionStep ==
    /\ upc = "loop"
    /\ hemi_index <= MaxHemi
    /\ IF HAT_files[hemi_index] = None
       THEN /\ hemi_index' = hemi_index + 1
            /\ UNCHANGED <<HAT_union_image, upc>>
       ELSE \/ LET CBF_mesh == ValueOf(HAT_files[hemi_index])
                   first == IF HAT_union_image = None THEN CBF_mesh
                            ELSE ValueOf(HAT_union_image)
               IN  /\ HAT_union_image' = Some(AddImages(first, CBF_mesh))
                   /\ hemi_index' = hemi_index + 1
                   /\ upc' = upc
            \/ /\ upc' = "raised"
               /\ UNCHANGED <<HAT_union_image, hemi_index>>
    /\ UNCHANGED <<combined, NotUnion>>

\* line 34: the union is written; nrrd.write raises when it is still None
UnionWrite ==
    /\ upc = "loop"
    /\ hemi_index > MaxHemi
    /\ IF HAT_union_image = None
       THEN /\ upc' = "raised"
            /\ combined' = combined
       ELSE /\ upc' = "exited"
            /\ combined' = HAT_union_image
    /\ UNCHANGED <<HAT_union_image, hemi_index, NotUnion>>

UnionNext ==
    \/ UnionStep
    \/ UnionWrite

SpecUnion == UnionInit /\ [][UnionNext]_vars

RECURSIVE SumOfFiles(_, _)
\* the elementwise sum of the images of the hemilineages h.. whose file exists
SumOfFiles(files, h) ==
    IF h > MaxHemi THEN [v \in UnionVoxels |-> 0]
    ELSE IF files[h] = None THEN SumOfFiles(files, h + 1)
    ELSE AddImages(ValueOf(files[h]), SumOfFiles(files, h + 1))

\* C25 as claimed: the combined image written is the elementwise sum of the
\* CBF images of the hemilineages whose file exists, each counted once.
C25_UnionIsSum ==
    upc = "exited" => combined = Some(SumOfFiles(HAT_files, 1))

(***************************************************************************)
(* HAT_mapping.py.  The images are binary; a ratio is a rational number.   *)
(***************************************************************************)
MapVoxels == {1, 2}

MapImages == [MapVoxels -> {0, 1}]

MapTypes == {"whole_neuron", "cbf"}

RECURSIVE SumOver(_, _)
\* ndarray.sum()
SumOver(f, voxels) ==
    IF voxels = {} THEN 0
    ELSE LET v == CHOOSE w \in voxels : TRUE
         IN  f[v] + SumOver(f, voxels \ {v})

\* lines 15-31: process_single_hemilineage returns the ratio, or raises (None)
\* when the file is missing or the HAT image has no positive voxel
process_single_hemilineage(TF, HAT_file) ==
    IF HAT_file = None THEN None
    ELSE LET HAT == ValueOf(HAT_file)
             total_positive_voxels == SumOver(HAT, MapVoxels)
             overlapping_voxels ==
                 SumOver([v \in MapVoxels |-> IF TF[v] THEN HAT[v] ELSE 0], MapVoxels)
         IN  IF total_positive_voxels = 0 THEN None
             ELSE Some(Rat(overlapping_voxels, total_positive_voxels))

RECURSIVE process_list(_, _, _, _)
\* lines 33-56 and 58-82: the ratios of the hemilineages from h on; a ratio is
\* appended only when process_single_hemilineage returns
process_list(TF, data, type, h) ==
    IF h > MaxHemi THEN <<>>
    ELSE LET overlap_ratio == process_single_hemilineage(TF, data[<<type, h>>])
         IN  (IF overlap_ratio = None THEN <<>> ELSE <<ValueOf(overlap_ratio)>>)
                \o process_list(TF, data, type, h + 1)

\* the TF image and the table are loaded (lines 98-110)
MappingInit ==
    /\ StatsIdle
    /\ group_a_paths = <<>>
    /\ group_b_paths = <<>>
    /\ alpha = RZero
    /\ tt = NoTTest
    /\ cmp = NotCalled
    /\ images = <<>>
    /\ MainIdle
    /\ ProcessorIdle
    /\ BatchIdle
    /\ ResetIdle
    /\ RegisterIdle
    /\ UnionIdle
    /\ TF_image_binary \in [MapVoxels -> BOOLEAN]
    /\ HAT_data \in [MapTypes \X Hemilineages -> {None} \cup {Some(i) : i \in MapImages}]
    /\ whole_neuron \in BOOLEAN
    /\ cbf \in BOOLEAN
    /\ HAT_table = <<>>
    /\ output_csv = None
    /\ kpc = "whole_neuron"
    /\ kexit = -1

NotMapping == <<statsVars, cmpVars, images, mainVars, processorVars, batchVars, resetVars,
                registerVars, unionVars, TF_image_binary, HAT_data, whole_neuron, cbf>>

\* lines 115 and 119: HAT_table[column] = results raises ValueError when the
\* list has not one value per row of the table; nothing catches it
AddColumn(type, next) ==
    LET column == process_list(TF_image_binary, HAT_data, type, 1)
    IN  IF Len(column) = MaxHemi
        THEN /\ HAT_table' = Append(HAT_table, [name |-> type, values |-> column])
             /\ kpc' = next
             /\ kexit' = kexit
        ELSE /\ HAT_table' = HAT_table
             /\ kpc' = "raised"
             /\ kexit' = 1

\* lines 112-115
MapWholeNeuron ==
    /\ kpc = "whole_neuron"
    /\ IF whole_neuron
       THEN AddColumn("whole_neuron", "cbf")
       ELSE /\ kpc' = "cbf"
            /\ UNCHANGED <<HAT_table, kexit>>
    /\ UNCHANGED <<output_csv, NotMapping>>

\* lines 116-119
MapCbf ==
    /\ kpc = "cbf"
    /\ IF cbf
       THEN AddColumn("cbf", "save")
       ELSE /\ kpc' = "save"
            /\ UNCHANGED <<HAT_table, kexit>>
    /\ UNCHANGED <<output_csv, NotMapping>>

\* lines 121-123: the table is written
SaveMapping ==
    /\ kpc = "save"
    /\ output_csv' = Some(HAT_table)
    /\ kpc' = "exited"
    /\ kexit' = 0
    /\ UNCHANGED <<HAT_table, NotMapping>>

MappingNext ==
    \/ MapWholeNeuron
    \/ MapCbf
    \/ SaveMapping

SpecMapping == MappingInit /\ [][MappingNext]_vars

\* the options of the run that select a processing type
MapRequested(type) == IF type = "cbf" THEN cbf ELSE whole_neuron

\* C30 as claimed: whatever overlap could not be computed, the run ends with
\* the output CSV written, and each requested result column has one entry per
\* hemilineage, with every ratio that was computed in the row of its own
\* hemilineage.
C30_MappingCompletes ==
    kpc \in {"exited", "raised"} =>
        /\ kexit = 0
        /\ output_csv # None
        /\ \A type \in MapTypes :
              MapRequested(type) =>
                  \E c \in 1 .. Len(ValueOf(output_csv)) :
                      LET column == ValueOf(output_csv)[c]
                      IN  /\ column.name = type
                          /\ Len(column.values) = MaxHemi
                          /\ \A h \in Hemilineages :
                                LET overlap_ratio ==
                                        process_single_hemilineage(TF_image_binary,
                                                                   HAT_data[<<type, h>>])
                                IN  overlap_ratio # None =>
                                        column.values[h] = ValueOf(overlap_ratio)

=============================================================================
